---------------------------- MODULE Spec2Model ----------------------------
(***************************************************************************)
(* A model of the data-contract agent: the Listener's post de-duplication, *)
(* the save_contract tool with the Store's versioned snapshots, the        *)
(* Scheduler's reminder ladder, the ContinuousPlanner's cycle with its     *)
(* rate limits and lock, and the active-thread registry.                   *)
(*                                                                         *)
(* Each subsystem has its own next-state relation over its own variables;  *)
(* the subsystems cooperate only through the file tree, and the parts of   *)
(* the tree they share are not touched by the properties stated here.      *)
(* Time is a counter of abstract ticks; every duration of the              *)
(* configuration is scaled down to a few ticks.                            *)
(***************************************************************************)
EXTENDS Integers, Sequences, FiniteSets, TLC

(***************************************************************************)
(* Bounds of the model.                                                    *)
(***************************************************************************)
MaxEvents == 4
MaxSaves == 3
MaxDays == 4
MaxReminders == 2
MaxPDays == 1
MaxCycles == 2
MaxTDays == 4
MaxListed == 2
MaxSent == 4
MaxTurns == 3
MaxToolCalls == 2
MaxChunks == 2
MaxWrites == 3
MaxMessages == 3
MaxVotes == 4
MaxPlans == 3

(***************************************************************************)
(* Configuration (src/src/config.py), scaled down.                         *)
(***************************************************************************)
DEDUP_MAX_ENTRIES == 2
DEDUP_TTL_SECONDS == 1
REMINDER_DEFAULT_INTERVAL_DAYS == 1
THREAD_TTL_DAYS == 2
PLANNER_MAX_ACTIVE_INITIATIVES == 2
PLANNER_MAX_NEW_THREADS_PER_DAY == 1
PLANNER_MAX_MESSAGES_PER_DAY == 3
PLANNER_MAX_ACTIONS_PER_INITIATIVE_PER_DAY == 2
PLANNER_COOLDOWN_HOURS == 24
PLANNER_WAIT_BEFORE_FOLLOWUP_HOURS == 24
PLANNER_STALE_INITIATIVE_DAYS == 1
PlanMaxActions == 3
PLANNER_RUN_TIME == "now"

\* The listener's clock runs for one TTL.
MaxTime == DEDUP_TTL_SECONDS

\* The planner's posts are followed up to one day's allowance of messages.
MaxPosts == PLANNER_MAX_MESSAGES_PER_DAY

Posts == {"p1", "p2", "p3"}
Handlers == {"h1", "h2"}
NoPost == "none"

VARIABLES
    now,          \* the wall clock, in ticks
    \* ---- Listener ----
    seen,         \* Listener._seen_post_ids
    inflight,     \* Listener._inflight_post_ids
    hpc,          \* per callback invocation: position in _handle_posted
    hpost,        \* per callback invocation: the post id being handled
    hread,        \* per callback invocation: data read by _persist_seen_post
    calls,        \* number of process_message invocations per post id
    events,       \* number of 'posted' events delivered so far
    refused,      \* post ids of events turned away as duplicates
    discarded,    \* post ids dropped from seen by the half-discard
    seenFile,     \* tasks/seen_posts.json: sequence of [id, ts]
    \* ---- Store and save_contract ----
    sclock,       \* the microsecond clock read by Memory._utc_ts
    cfile,        \* contracts/<id>.md: a content, or Absent
    snaps,        \* contracts/versions/<id>/: set of [t, prev, content]
    hist,         \* contracts/versions/<id>/history.jsonl: sequence of entries
    rolesFile,    \* tasks/roles.json: role -> set of usernames
    sres,         \* the result of the last tool call, with the file before it
    \* ---- Scheduler: reminders ----
    rnow,         \* the clock of the reminder ladder, in ticks
    remFile,      \* tasks/reminders.json: sequence of reminders
    rpc,          \* position of _check_reminders
    rlocal,       \* the list _check_reminders read and mutates
    ridx,         \* index of the reminder the pass looks at next
    rpassNow,     \* now, as read at the start of the pass
    rupdated,     \* the flag "updated" of the pass
    apc,          \* position of _tool_add_reminder
    alocal,       \* the list _tool_add_reminder read
    anew,         \* the reminder _tool_add_reminder appends
    rsent,        \* history: the messages the passes handed to the chat client
                  \* for the reminder Watched
    rsentAt,      \* history: when the last of them was sent
    \* ---- Planner ----
    pnow,         \* the planner's clock: the UTC day
    pfile,        \* tasks/planner_state.json
    plog,         \* tasks/planner_log.jsonl: number of records of each kind
    plock,        \* ContinuousPlanner._lock: who holds it
    cpc,          \* position of _run_cycle
    cstate,       \* the state _run_cycle read and mutates
    cdaily,       \* the cycle's counters for today
    cnow,         \* now, as read at the start of the cycle
    cnum,         \* actions of the plan looked at so far
    cplan,        \* what the model's call gave the cycle that is running
    pcycles,      \* cycles started
    npc,          \* position of notify_thread_activity
    nstate,       \* the state notify_thread_activity read
    nnow,         \* now, as read by notify_thread_activity
    nroot,        \* its root_id
    nuser,        \* its username
    psent,        \* per day of the cycle: messages posted and threads started
    pexec,        \* per initiative and day: actions executed
    postSeq,      \* posts created so far; the next post id is postSeq + 1
    plast,        \* history: when each kind of action was last executed
    pllm,         \* history: calls made to the model (llm.call_heavy)
    \* ---- Active threads ----
    tnow,         \* the clock of the active threads, in days
    tfile,        \* tasks/active_threads.json: contract_id -> entry
    tres,         \* the last get_active_thread: its argument, time, entry and result
    treply,       \* the last message the Agent replied to, and the root it found
    \* ---- read_roles ----
    mrDefaults,   \* context/roles.json: role -> list of names
    mrRuntime,    \* tasks/roles.json: role -> list of names
    mrResult,     \* the result of the last read_roles since the files changed
    \* ToolExecutor
    wpc,          \* "idle" or "writing": a handler is at one of its writes
    wtool,        \* the tool of the call under way, or of the last call
    wstep,        \* which of the handler's writes is under way
    wattempt,     \* the attempt _retry_io is at
    wdone,        \* the files the call has written
    wresult,      \* what execute handed back to the tool loop
    wfiles,       \* the files written so far
    wretry,       \* the _retry_io under way: attempts that failed, delays slept
    wlast,        \* the last _retry_io that ended: its attempts, delays and outcome
    \* the gates of save_contract
    gres,         \* the last call of the gates: its arguments and what they gave
    \* ---- LLMClient.call_with_tools ----
    qpc,          \* "idle", "loop" (a call is in its for loop) or "done"
    qmax,         \* max_turns of the call
    qturn,        \* turns of the loop that are over
    qreqs,        \* requests the call has made to the model
    qmsgs,        \* len(messages)
    qlast,        \* what the last request gave
    qresult,      \* how the call ended
    disk,         \* file tree: path -> the chunks the file holds
    staged,       \* write_batch: temp files not yet renamed, in order
    fpc,          \* writer: "idle", "writing", "renaming"
    fjob,         \* the write in progress
    fcount,       \* writes begun
    fobs,         \* the last content a reader, or the process after a crash, found
    dstatus,      \* status of the contract in contracts/index.json
    dsaved,       \* saves of the contract's text
    dreminders,   \* reminders on file
    dn,           \* messages processed
    dmsg,         \* the last message: its channel, its route, the catalog offered
    vstate,       \* approval_state of each contract's discussion
    vres,         \* what the last approval tool returned
    vn,           \* approval tool calls made
    inow,         \* the day, for the cycles over several contracts
    ifile,        \* tasks/planner_state.json of those cycles
    iplans        \* cycles run

lvars == <<seen, inflight, hpc, hpost, hread, calls, events, refused, discarded, seenFile>>

svars == <<sclock, cfile, snaps, hist, rolesFile, sres>>

rvars == <<rnow, remFile, rpc, rlocal, ridx, rpassNow, rupdated, apc, alocal, anew, rsent, rsentAt>>

pvars == <<pnow, pfile, plog, plock, cpc, cstate, cdaily, cnow, cnum, cplan, pcycles,
           npc, nstate, nnow, nroot, nuser, psent, pexec, postSeq, plast, pllm>>

tvars == <<tnow, tfile, tres, treply>>

mvars == <<mrDefaults, mrRuntime, mrResult>>

wvars == <<wpc, wtool, wstep, wattempt, wdone, wresult, wfiles, wretry, wlast>>

gvars == <<gres>>

qvars == <<qpc, qmax, qturn, qreqs, qmsgs, qlast, qresult>>

fvars == <<disk, staged, fpc, fjob, fcount, fobs>>

dvars == <<dstatus, dsaved, dreminders, dn, dmsg>>

avars == <<vstate, vres, vn>>

ivars == <<inow, ifile, iplans>>

vars == <<now, lvars, svars, rvars, pvars, tvars, mvars, wvars, gvars, qvars, fvars, dvars, avars, ivars>>

\* What each subsystem leaves alone.
notListener == <<svars, rvars, pvars, tvars, mvars, wvars, gvars, qvars, fvars, dvars, avars, ivars>>
notStore == <<now, lvars, rvars, pvars, tvars, mvars, wvars, gvars, qvars, fvars, dvars, avars, ivars>>
notScheduler == <<now, lvars, svars, pvars, tvars, mvars, wvars, gvars, qvars, fvars, dvars, avars, ivars>>
notPlanner == <<now, lvars, svars, rvars, tvars, mvars, wvars, gvars, qvars, fvars, dvars, avars, ivars>>
notThreads == <<now, lvars, svars, rvars, pvars, mvars, wvars, gvars, qvars, fvars, dvars, avars, ivars>>
notRoles == <<now, lvars, svars, rvars, pvars, tvars, wvars, gvars, qvars, fvars, dvars, avars, ivars>>
notTools == <<now, lvars, svars, rvars, pvars, tvars, mvars, gvars, qvars, fvars, dvars, avars, ivars>>
notGates == <<now, lvars, svars, rvars, pvars, tvars, mvars, wvars, qvars, fvars, dvars, avars, ivars>>
notToolLoop == <<now, lvars, svars, rvars, pvars, tvars, mvars, wvars, gvars, fvars, dvars, avars, ivars>>
notWrites == <<now, lvars, svars, rvars, pvars, tvars, mvars, wvars, gvars, qvars, dvars, avars, ivars>>
notDm == <<now, lvars, svars, rvars, pvars, tvars, mvars, wvars, gvars, qvars, fvars, avars, ivars>>
notApproval == <<now, lvars, svars, rvars, pvars, tvars, mvars, wvars, gvars, qvars, fvars, dvars, ivars>>
notInitiatives == <<now, lvars, svars, rvars, pvars, tvars, mvars, wvars, gvars, qvars, fvars, dvars, avars>>

(***************************************************************************)
(* Helpers.                                                                *)
(***************************************************************************)
Range(s) == {s[i] : i \in 1..Len(s)}

\* s[-k:] of Python: the last k elements; all of s when k >= Len(s), and
\* also when k = 0, since s[-0:] is s[0:].
LastK(s, k) ==
    IF k = 0 \/ Len(s) <= k THEN s ELSE SubSeq(s, Len(s) - k + 1, Len(s))

\* [e for e in s if P(e)]
RECURSIVE FilterSeq(_, _)
FilterSeq(s, keep) ==
    IF s = <<>> THEN <<>>
    ELSE IF Head(s) \in keep THEN <<Head(s)>> \o FilterSeq(Tail(s), keep)
         ELSE FilterSeq(Tail(s), keep)

Tick ==
    /\ now < MaxTime
    /\ now' = now + 1

(***************************************************************************)
(* Listener: _handle_posted and _persist_seen_post.                        *)
(***************************************************************************)

\* The admission test made under _dedup_lock.
AdmitOkNoInflight(p) == p \notin seen

AdmitOk(p) == p \notin seen /\ p \notin inflight

\* Post ids and callback invocations are interchangeable: an event runs on
\* the first free invocation, and an id not delivered before is the first
\* unused one.
PostOrder == <<"p1", "p2", "p3">>
HandlerOrder == <<"h1", "h2">>

IsFirstOf(order, S, x) ==
    \E i \in 1..Len(order) :
        /\ order[i] = x
        /\ x \in S
        /\ \A j \in 1..(i - 1) : order[j] \notin S

Arrives(h, p) ==
    LET free == {g \in Handlers : hpc[g] = "idle"}
        known == seen \cup inflight \cup discarded
    IN  /\ IsFirstOf(HandlerOrder, free, h)
        /\ p \in known \/ IsFirstOf(PostOrder, Posts \ known, p)

\* A 'posted' event for p arrives on a free callback invocation.  The body
\* up to the lock: a duplicate returns at once, a new post becomes inflight.
Deliver(h, p) ==
    /\ hpc[h] = "idle"
    /\ Arrives(h, p)
    /\ events < MaxEvents
    /\ events' = events + 1
    /\ IF AdmitOk(p)
       THEN /\ inflight' = inflight \cup {p}
            /\ hpc' = [hpc EXCEPT ![h] = "process"]
            /\ hpost' = [hpost EXCEPT ![h] = p]
            /\ UNCHANGED refused
       ELSE /\ refused' = refused \cup {p}
            /\ UNCHANGED <<inflight, hpc, hpost>>
    /\ UNCHANGED notListener
    /\ UNCHANGED <<now, seen, hread, calls, discarded, seenFile>>

\* _process_posted: it either reaches agent.process_message (which may
\* itself raise) or returns before it (foreign channel, onboarding ping,
\* an exception on the way).
ProcessPosted(h) ==
    /\ hpc[h] = "process"
    /\ \E invoked \in BOOLEAN :
         calls' = IF invoked THEN [calls EXCEPT ![hpost[h]] = @ + 1] ELSE calls
    /\ hpc' = [hpc EXCEPT ![h] = "finish"]
    /\ UNCHANGED notListener
    /\ UNCHANGED <<now, seen, inflight, hpost, hread, events, refused, discarded, seenFile>>

\* set(list(seen)[-(DEDUP_MAX_ENTRIES // 2):]): the order of a set's
\* elements is arbitrary, so any subset of that size may survive.
HalfDiscards(s) ==
    IF Cardinality(s) > DEDUP_MAX_ENTRIES /\ DEDUP_MAX_ENTRIES \div 2 > 0
    THEN {t \in SUBSET s : Cardinality(t) = DEDUP_MAX_ENTRIES \div 2}
    ELSE {s}

\* set.discard(x)
DiscardNothing(s, x) == s

Discard(s, x) == s \ {x}

\* The finally block, under _dedup_lock.
Finish(h) ==
    /\ hpc[h] = "finish"
    /\ inflight' = Discard(inflight, hpost[h])
    /\ \E kept \in HalfDiscards(seen \cup {hpost[h]}) :
         /\ seen' = kept
         /\ discarded' = discarded \cup ((seen \cup {hpost[h]}) \ kept)
    /\ hpc' = [hpc EXCEPT ![h] = "persist_read"]
    /\ UNCHANGED notListener
    /\ UNCHANGED <<now, hpost, hread, calls, events, refused, seenFile>>

\* _persist_seen_post, first half: read_json of the dedup file.  A failed
\* read is swallowed by the except clause and nothing is persisted.
PersistRead(h) ==
    /\ hpc[h] = "persist_read"
    /\ \E ok \in BOOLEAN :
         IF ok
         THEN /\ hread' = [hread EXCEPT ![h] = seenFile]
              /\ hpc' = [hpc EXCEPT ![h] = "persist_write"]
              /\ UNCHANGED hpost
         ELSE /\ hpc' = [hpc EXCEPT ![h] = "idle"]
              /\ hpost' = [hpost EXCEPT ![h] = NoPost]
              /\ UNCHANGED hread
    /\ UNCHANGED notListener
    /\ UNCHANGED <<now, seen, inflight, calls, events, refused, discarded, seenFile>>

\* Prune expired entries, cap the list, append the new entry.
PersistedPostsUncapped(data, p, t) ==
    Append(FilterSeq(data, {e \in Range(data) : t - e.ts < DEDUP_TTL_SECONDS}),
           [id |-> p, ts |-> t])

PersistedPosts(data, p, t) ==
    LET fresh == FilterSeq(data, {e \in Range(data) : t - e.ts < DEDUP_TTL_SECONDS})
        capped == IF Len(fresh) >= DEDUP_MAX_ENTRIES
                  THEN LastK(fresh, DEDUP_MAX_ENTRIES \div 2)
                  ELSE fresh
    IN  Append(capped, [id |-> p, ts |-> t])

\* _persist_seen_post, second half: write_json.  A failed write is swallowed.
PersistWrite(h) ==
    /\ hpc[h] = "persist_write"
    /\ \E ok \in BOOLEAN :
         seenFile' = IF ok THEN PersistedPosts(hread[h], hpost[h], now) ELSE seenFile
    /\ hread' = [hread EXCEPT ![h] = <<>>]
    /\ hpc' = [hpc EXCEPT ![h] = "idle"]
    /\ hpost' = [hpost EXCEPT ![h] = NoPost]
    /\ UNCHANGED notListener
    /\ UNCHANGED <<now, seen, inflight, calls, events, refused, discarded>>

ListenerInit ==
    /\ seen = {}
    /\ inflight = {}
    /\ hpc = [h \in Handlers |-> "idle"]
    /\ hpost = [h \in Handlers |-> NoPost]
    /\ hread = [h \in Handlers |-> <<>>]
    /\ calls = [p \in Posts |-> 0]
    /\ events = 0
    /\ refused = {}
    /\ discarded = {}
    /\ seenFile = <<>>

(***************************************************************************)
(* Contract texts.  A text is known to the model by what the gates of      *)
(* save_contract read in it: whether its required sections are filled, who *)
(* is listed under "Согласовано", whether it uses a glossary term without  *)
(* disambiguating it.                                                      *)
(***************************************************************************)
Users == {"u1", "u2"}
Roles == {"data_lead", "circle_lead"}
Contracts == {"x"}
Absent == 0

Content ==
    << [body |-> "A", structOk |-> TRUE,  approvers |-> {"u1", "u2"}, ambiguous |-> FALSE],
       [body |-> "B", structOk |-> TRUE,  approvers |-> {"u1", "u2"}, ambiguous |-> TRUE],
       [body |-> "C", structOk |-> FALSE, approvers |-> {"u1", "u2"}, ambiguous |-> FALSE],
       [body |-> "D", structOk |-> TRUE,  approvers |-> {"u1"},       ambiguous |-> FALSE],
       [body |-> "E", structOk |-> FALSE, approvers |-> {},           ambiguous |-> TRUE] >>

Contents == 1..Len(Content)

\* context/governance.json; thresholds in percent.
Governance ==
    [tier_1 |-> [approval_required |-> {"data_lead", "circle_lead"}, consensus_threshold |-> 75],
     tier_2 |-> [approval_required |-> {"data_lead", "circle_lead"}, consensus_threshold |-> 100],
     tier_3 |-> [approval_required |-> {"data_lead", "circle_lead"}, consensus_threshold |-> 50]]

Tiers == {"tier_1", "tier_2", "tier_3"}

\* The tier looked up in contracts/index.json: "tier_2" when the index
\* records none for the contract, as here.
TierOf(c) == "tier_2"

\* context/roles.json, the read-only defaults.
DefaultRoles == [r \in Roles |-> {}]

\* _merge_roles: the union of the defaults and the runtime roles.
MergeRoles(runtime) == [r \in Roles |-> DefaultRoles[r] \cup runtime[r]]

\* The order in which the role keys are met when the role map is inverted.
RoleOrder == <<"data_lead", "circle_lead">>

\* role_map[u] = role, filled role by role: a later role overwrites an
\* earlier one for a user who holds both.  "" when the user holds none.
RECURSIVE RoleOfUser(_, _, _)
RoleOfUser(merged, u, i) ==
    IF i = 0 THEN ""
    ELSE IF u \in merged[RoleOrder[i]] THEN RoleOrder[i]
         ELSE RoleOfUser(merged, u, i - 1)

RoleMap(merged, u) == RoleOfUser(merged, u, Len(RoleOrder))

\* validate_contract(content).ok
ValidateOk(k) == Content[k].structOk

\* check_approval_policy: the required roles no approver holds.
MissingRoles(k, policy, merged) ==
    LET have == {RoleMap(merged, u) : u \in Content[k].approvers} \ {""}
    IN  policy.approval_required \ have

ApprovalOkAllRequired(k, policy, merged) == MissingRoles(k, policy, merged) = {}

ApprovalOk(k, policy, merged) ==
    LET req == policy.approval_required
        missing == MissingRoles(k, policy, merged)
        have == Cardinality(req) - Cardinality(missing)
    IN  IF policy.consensus_threshold = 100
        THEN missing = {}
        ELSE IF req = {} THEN 100 >= policy.consensus_threshold
             ELSE have * 100 >= policy.consensus_threshold * Cardinality(req)

\* check_ambiguity(content, glossary) is non-empty
GlossaryAmbiguous(k) == Content[k].ambiguous

\* The errors list of _tool_save_contract after its three gates.  When the
\* governance block raises, its except clause logs and adds no error.
SaveErrorsFirstGate(c, k, force, govRaises) ==
    IF ~ValidateOk(k) THEN {"validation"}
    ELSE IF ~govRaises /\ ~ApprovalOk(k, Governance[TierOf(c)], MergeRoles(rolesFile))
    THEN {"governance"}
    ELSE IF GlossaryAmbiguous(k) /\ ~force THEN {"glossary"}
    ELSE {}

SaveErrorsForceSilencesAll(c, k, force, govRaises) ==
    IF force THEN {}
    ELSE (IF ValidateOk(k) THEN {} ELSE {"validation"})
         \cup (IF ~govRaises /\ ~ApprovalOk(k, Governance[TierOf(c)], MergeRoles(rolesFile))
               THEN {"governance"} ELSE {})
         \cup (IF GlossaryAmbiguous(k) THEN {"glossary"} ELSE {})

SaveErrors(c, k, force, govRaises) ==
    (IF ValidateOk(k) THEN {} ELSE {"validation"})
    \cup (IF ~govRaises /\ ~ApprovalOk(k, Governance[TierOf(c)], MergeRoles(rolesFile))
          THEN {"governance"} ELSE {})
    \cup (IF GlossaryAmbiguous(k) /\ ~force THEN {"glossary"} ELSE {})

\* "if errors: return {success: False, ...}": the save is reached only with
\* an empty error list.
CommitSkipsCheck(errors) == TRUE

CommitAllowed(errors) == errors = {}

(***************************************************************************)
(* Memory.save_contract.                                                   *)
(***************************************************************************)

\* _utc_ts: successive saves are more than a microsecond apart, so each
\* reads a later timestamp.
UtcTsFrozen(clock) == clock

UtcTs(clock) == clock + 1

\* The (path, content) pairs handed to write_batch, in order.
BatchWritesNoSnapshot(prev, t, k) ==
    (IF prev # Absent
     THEN <<[kind |-> "snap", t |-> t, prev |-> TRUE, content |-> prev]>>
     ELSE <<>>)
    \o <<[kind |-> "current", t |-> t, prev |-> FALSE, content |-> k]>>

BatchWrites(prev, t, k) ==
    (IF prev # Absent
     THEN <<[kind |-> "snap", t |-> t, prev |-> TRUE, content |-> prev]>>
     ELSE <<>>)
    \o <<[kind |-> "current", t |-> t, prev |-> FALSE, content |-> k],
         [kind |-> "snap", t |-> t, prev |-> FALSE, content |-> k]>>

\* The history entries appended after the batch, in order.  sha is the
\* SHA-256 of the text, which identifies it.
HistoryEntries(prev, t, k) ==
    (IF prev # Absent
     THEN <<[t |-> t, kind |-> "previous", sha |-> prev]>>
     ELSE <<>>)
    \o <<[t |-> t, kind |-> "current", sha |-> k]>>

\* os.replace of the first n staged files.
RenamedCurrent(old, writes, n) ==
    IF \E i \in 1..n : writes[i].kind = "current"
    THEN (CHOOSE w \in {writes[i] : i \in 1..n} : w.kind = "current").content
    ELSE old

RenamedSnaps(old, writes, n) ==
    LET new == {[t |-> writes[i].t, prev |-> writes[i].prev, content |-> writes[i].content] :
                    i \in {j \in 1..n : writes[j].kind = "snap"}}
    IN  {f \in old : ~\E g \in new : g.t = f.t /\ g.prev = f.prev} \cup new

\* How far a save gets: the number of files renamed into place by
\* write_batch and the number of history lines appended.  A failure while
\* staging renames nothing; a history line is appended only after every
\* rename; an append is retried and then raises.
Progress(writes, entries) ==
    {[renames |-> n, appends |-> m] :
        n \in 0..Len(writes), m \in 0..Len(entries)} \ 
    {pr \in [renames : 0..Len(writes), appends : 0..Len(entries)] :
        pr.appends > 0 /\ pr.renames < Len(writes)}

Complete(writes, entries, pr) ==
    pr.renames = Len(writes) /\ pr.appends = Len(entries)

\* _tool_save_contract(contract_id, content, force), with the Store write it
\* makes.  The tool loop receives {"error": ...}, without a success key,
\* when the save raises.
ToolSaveContract(c, k, force, govRaises) ==
    /\ sclock < MaxSaves
    /\ LET errors == SaveErrors(c, k, force, govRaises)
           prev == cfile[c]
           t == UtcTs(sclock)
           writes == BatchWrites(prev, t, k)
           entries == HistoryEntries(prev, t, k)
       IN  IF ~CommitAllowed(errors)
           THEN /\ sres' = [id |-> c, status |-> "blocked", before |-> prev,
                            errors |-> errors]
                /\ UNCHANGED <<sclock, cfile, snaps, hist>>
           ELSE \E pr \in Progress(writes, entries) :
                  /\ sclock' = t
                  /\ cfile' = [cfile EXCEPT ![c] = RenamedCurrent(prev, writes, pr.renames)]
                  /\ snaps' = [snaps EXCEPT ![c] = RenamedSnaps(@, writes, pr.renames)]
                  /\ hist' = [hist EXCEPT ![c] = @ \o SubSeq(entries, 1, pr.appends)]
                  /\ sres' = [id |-> c,
                              status |-> IF errors # {} THEN "blocked"
                                         ELSE IF Complete(writes, entries, pr)
                                              THEN "success" ELSE "error",
                              before |-> prev]
    /\ UNCHANGED rolesFile
    /\ UNCHANGED notStore

\* The role assignments asked for.
Assignments == {<<"data_lead", "u1">>, <<"circle_lead", "u2">>}

\* _tool_assign_role(role, username): adds the user to the runtime roles.
ToolAssignRole(r, u) ==
    /\ u \notin rolesFile[r]
    /\ rolesFile' = [rolesFile EXCEPT ![r] = @ \cup {u}]
    /\ sres' = [id |-> "", status |-> "success", before |-> Absent]
    /\ UNCHANGED <<sclock, cfile, snaps, hist>>
    /\ UNCHANGED notStore

StoreInit ==
    /\ sclock = 0
    /\ cfile = [c \in Contracts |-> Absent]
    /\ snaps = [c \in Contracts |-> {}]
    /\ hist = [c \in Contracts |-> <<>>]
    /\ rolesFile = [r \in Roles |-> {}]
    /\ sres = [id |-> "", status |-> "none", before |-> Absent]

(***************************************************************************)
(* Scheduler._check_reminders and the add_reminder tool.  The pass runs on *)
(* the scheduler's thread and the tool on the listener's: each reads       *)
(* tasks/reminders.json, works on its copy and writes the whole file back. *)
(***************************************************************************)
ReminderIds == {"r1", "r2"}
NoStep == 0      \* the reminder has no escalation_step key
NoTime == -1     \* the reminder has no last_reminder yet

\* The reminders handed to add_reminder: one with neither an escalation_step
\* nor a target_mm_user_id, one with both.
ReminderInputs == {[step |-> NoStep, mm |-> FALSE], [step |-> 1, mm |-> TRUE]}

\* rem.get("escalation_step", 1)
EffStep(r) == IF r.step = NoStep THEN 1 ELSE r.step

\* The rung written by the branch taken for `step`.
StepAfterUnclamped(step) == step + 1

StepAfter(step) ==
    IF step = 1 THEN 2
    ELSE IF step = 2 THEN 3
    ELSE IF step = 3 THEN 4
    ELSE IF step >= 4 THEN 5
    ELSE step

\* next_dt > now: the reminder is skipped.
Due(r, t) == r.next <= t

\* The message of the branch taken for `step`: the soft reminder and the A/B
\* options go to the thread, the third is a direct message, the fourth and
\* every later one is the escalation to the controller.
Watched == "r1"

Ladder == <<"nudge", "ab", "dm", "escalation">>

MessageKind(step) ==
    IF step = 1 THEN "nudge"
    ELSE IF step = 2 THEN "ab"
    ELSE IF step = 3 THEN "dm"
    ELSE "escalation"

\* Whether the branch hands a message to the chat client: mm.send_dm is
\* called only for a reminder that carries a target_mm_user_id.  (A send
\* that raises is logged and the pass goes on.)
Sends(r) == EffStep(r) = 3 => r.mm

\* The pass starts: get_reminders; an empty list ends it at once.
PassStart ==
    /\ rpc = "idle"
    /\ IF remFile = <<>>
       THEN UNCHANGED <<rpc, rlocal, ridx, rpassNow, rupdated>>
       ELSE /\ rpc' = "loop"
            /\ rlocal' = remFile
            /\ ridx' = 1
            /\ rpassNow' = rnow
            /\ rupdated' = FALSE
    /\ UNCHANGED <<rnow, remFile, apc, alocal, anew, rsent, rsentAt>>
    /\ UNCHANGED notScheduler

\* One turn of the loop: a reminder that is not due is skipped; a due one
\* gets the message of its step, the next step and a new next_reminder.
\* Reading the templates, the discussion or the cheap model's options may
\* raise: the exception leaves the loop and the pass ends without saving.
PassStep ==
    /\ rpc = "loop"
    /\ ridx <= Len(rlocal)
    /\ LET r == rlocal[ridx]
       IN  IF ~Due(r, rpassNow)
           THEN /\ ridx' = ridx + 1
                /\ UNCHANGED <<rpc, rlocal, rupdated, rsent, rsentAt>>
           ELSE \E raised \in BOOLEAN :
                  IF raised
                  THEN /\ rpc' = "idle"
                       /\ rlocal' = <<>>
                       /\ ridx' = 0
                       /\ rupdated' = FALSE
                       /\ UNCHANGED <<rsent, rsentAt>>
                  ELSE /\ (r.id = Watched /\ Sends(r)) => Len(rsent) < MaxSent
                       /\ IF r.id = Watched /\ Sends(r)
                          THEN /\ rsent' = Append(rsent, MessageKind(EffStep(r)))
                               /\ rsentAt' = rpassNow
                          ELSE UNCHANGED <<rsent, rsentAt>>
                       /\ rlocal' = [rlocal EXCEPT ![ridx] =
                                        [r EXCEPT !.step = StepAfter(EffStep(r)),
                                                  !.last = rpassNow,
                                                  !.next = rpassNow + REMINDER_DEFAULT_INTERVAL_DAYS]]
                       /\ rupdated' = TRUE
                       /\ ridx' = ridx + 1
                       /\ UNCHANGED rpc
    /\ UNCHANGED <<rnow, remFile, rpassNow, apc, alocal, anew>>
    /\ UNCHANGED notScheduler

\* After the loop: save_reminders(reminders) if anything was updated.  A
\* write that fails after its retries is caught by the pass and logged.
PassSave ==
    /\ rpc = "loop"
    /\ ridx > Len(rlocal)
    /\ \E ok \in BOOLEAN :
         remFile' = IF rupdated /\ ok THEN rlocal ELSE remFile
    /\ rpc' = "idle"
    /\ rlocal' = <<>>
    /\ ridx' = 0
    /\ rupdated' = FALSE
    /\ UNCHANGED <<rnow, rpassNow, apc, alocal, anew, rsent, rsentAt>>
    /\ UNCHANGED notScheduler

\* _tool_add_reminder, first half: get_reminders.
AddReminderRead(id, step, next, mm) ==
    /\ apc = "idle"
    /\ Len(remFile) < MaxReminders
    /\ id \notin {remFile[i].id : i \in 1..Len(remFile)}
    /\ apc' = "write"
    /\ alocal' = remFile
    /\ anew' = [id |-> id, step |-> step, next |-> next, last |-> NoTime, mm |-> mm]
    /\ UNCHANGED <<rnow, remFile, rpc, rlocal, ridx, rpassNow, rupdated, rsent, rsentAt>>
    /\ UNCHANGED notScheduler

\* _tool_add_reminder, second half: append and save_reminders.
AddReminderWrite ==
    /\ apc = "write"
    /\ \E ok \in BOOLEAN :
         remFile' = IF ok THEN Append(alocal, anew) ELSE remFile
    /\ apc' = "idle"
    /\ alocal' = <<>>
    /\ UNCHANGED <<rnow, rpc, rlocal, ridx, rpassNow, rupdated, anew, rsent, rsentAt>>
    /\ UNCHANGED notScheduler

RTick ==
    /\ rnow < MaxDays
    /\ rnow' = rnow + 1
    /\ UNCHANGED <<remFile, rpc, rlocal, ridx, rpassNow, rupdated, apc, alocal, anew, rsent, rsentAt>>
    /\ UNCHANGED notScheduler

SchedulerInit ==
    /\ rnow = 0
    /\ remFile = <<>>
    /\ rpc = "idle"
    /\ rlocal = <<>>
    /\ ridx = 0
    /\ rpassNow = 0
    /\ rupdated = FALSE
    /\ apc = "idle"
    /\ alocal = <<>>
    /\ anew = [id |-> "r1", step |-> NoStep, next |-> 0, last |-> NoTime, mm |-> FALSE]
    /\ rsent = <<>>
    /\ rsentAt = NoTime

(***************************************************************************)
(* ContinuousPlanner: the cycle (_run_cycle) on the planner's thread and   *)
(* the hook notify_thread_activity on the listener's, both under           *)
(* self._lock.  The planner's clock counts UTC days: an instant is the day *)
(* it falls on, and a span of hours is that many whole days.               *)
(***************************************************************************)
Days == 0..MaxPDays
HoursToDays(h) == h \div 24

PContracts == {"a"}
PUsers == {"u1"}
MaxInitiatives == Cardinality(PContracts) + 1
NoUser == ""
NoThread == 0

ActionTypes == {"start_thread", "ask_question", "propose_resolution",
                "partial_fix", "follow_up", "escalate"}
PlanTypes == ActionTypes \cup {"unknown"}
ActiveStatuses == {"active", "waiting_response", "planned"}
TerminalStatuses == {"completed", "abandoned"}
CooldownKeys == {"propose_resolution", "follow_up"} \X PContracts

DefaultDaily == [threads_started |-> 0, messages_sent |-> 0]

\* tasks/planner_state.json when the file is absent.
DefaultPlannerState ==
    [initiatives  |-> <<>>,
     daily_stats  |-> [d \in Days |-> DefaultDaily],
     cooldowns    |-> [k \in CooldownKeys |-> NoTime],
     last_plan_at |-> NoTime]

\* The local `state` of a call that is not running.
NoState == <<>>

\* with self._lock: the lock is taken only when nobody holds it.
CanAcquireAlways(holders) == TRUE

CanAcquire(holders) == holders = {}

\* _wait_for_next_run returns: at once when PLANNER_RUN_TIME is "now",
\* otherwise when no cycle has recorded last_plan_at on today's date.
WaitForNextRun(runTime, state, t) ==
    \/ runTime = "now"
    \/ state.last_plan_at = NoTime
    \/ state.last_plan_at # t

\* (now - dt).days >= PLANNER_STALE_INITIATIVE_DAYS
StaleLater(init, t) == (t - init.updated_at) > PLANNER_STALE_INITIATIVE_DAYS

Stale(init, t) == (t - init.updated_at) >= PLANNER_STALE_INITIATIVE_DAYS

\* _abandon_stale_initiatives: stale initiatives become abandoned, and
\* actions_today of every initiative is set to 0.
AbandonStale(state, t) ==
    [state EXCEPT !.initiatives =
        [i \in DOMAIN state.initiatives |->
            LET init == state.initiatives[i]
                aged == IF init.status \notin TerminalStatuses /\ Stale(init, t)
                        THEN [init EXCEPT !.status = "abandoned", !.updated_at = t]
                        ELSE init
            IN  [aged EXCEPT !.actions_today = 0]]]

\* The cooldown check of _check_limits: the key's cooldown is still running.
CoolingDownNever(action, state, t) == FALSE

CoolingDown(action, state, t) ==
    LET key == <<action.type, action.contract_id>>
    IN  /\ key \in DOMAIN state.cooldowns
        /\ state.cooldowns[key] # NoTime
        /\ state.cooldowns[key] > t

\* The wait check of _check_limits: a follow_up for a contract one of whose
\* initiatives has a next_action_after still ahead.
MustWaitNever(action, state, t) == FALSE

MustWait(action, state, t) ==
    /\ action.type = "follow_up"
    /\ \E i \in DOMAIN state.initiatives :
          /\ state.initiatives[i].contract_id = action.contract_id
          /\ state.initiatives[i].next_action_after # NoTime
          /\ state.initiatives[i].next_action_after > t

\* _check_limits: True when the action is allowed.
CheckLimits(action, state, daily, t) ==
    LET inits == state.initiatives
    IN  /\ daily.messages_sent < PLANNER_MAX_MESSAGES_PER_DAY
        /\ action.type = "start_thread" =>
              daily.threads_started < PLANNER_MAX_NEW_THREADS_PER_DAY
        /\ action.type = "start_thread" =>
              Cardinality({i \in DOMAIN inits : inits[i].status \in ActiveStatuses})
                 < PLANNER_MAX_ACTIVE_INITIATIVES
        /\ ~CoolingDown(action, state, t)
        /\ \A i \in DOMAIN inits :
              inits[i].contract_id = action.contract_id =>
                 inits[i].actions_today < PLANNER_MAX_ACTIONS_PER_INITIATIVE_PER_DAY
        /\ ~MustWait(action, state, t)

\* _get_or_create_initiative: the index of the first initiative of the
\* contract that is not terminal, else of a new one appended to the state.
ExistingNone(state, cid) == {}

Existing(state, cid) ==
    {i \in DOMAIN state.initiatives :
        /\ state.initiatives[i].contract_id = cid
        /\ state.initiatives[i].status \notin TerminalStatuses}

NewInitiative(cid, t) ==
    [contract_id |-> cid, status |-> "active", updated_at |-> t,
     thread_id |-> NoThread, waiting_for |-> {}, next_action_after |-> NoTime,
     last_external_activity_at |-> NoTime, actions_today |-> 0]

WithInitiative(state, cid, t) ==
    IF Existing(state, cid) # {} THEN state
    ELSE [state EXCEPT !.initiatives = Append(@, NewInitiative(cid, t))]

InitiativeIndex(state, cid) ==
    IF Existing(state, cid) # {}
    THEN CHOOSE i \in Existing(state, cid) : \A j \in Existing(state, cid) : i <= j
    ELSE Len(state.initiatives) + 1

\* ActionDispatcher.execute: an unknown type gives no result; a handler
\* whose send raises gives no result and no message; _start_thread may
\* raise in set_active_thread after its message was posted.
Outcomes(type) ==
    IF type \notin ActionTypes THEN {"unknown"}
    ELSE {"ok", "send_failed"}
            \cup (IF type = "start_thread" THEN {"sent_then_raised"} ELSE {})

MessagePosted(outcome) == outcome \in {"ok", "sent_then_raised"}

\* The planner's bookkeeping for an action whose result is not None.
Executed(state, idx, action, post, t) ==
    LET asks == action.type \in {"ask_question", "follow_up"}
        key == <<action.type, action.contract_id>>
        st1 == [state EXCEPT !.initiatives[idx] =
                  [@ EXCEPT !.updated_at = t,
                            !.actions_today = @ + 1,
                            !.thread_id = IF action.type = "start_thread" THEN post ELSE @,
                            !.status = IF asks THEN "waiting_response" ELSE @,
                            !.waiting_for = IF asks /\ action.target_user # NoUser
                                            THEN @ \cup {action.target_user} ELSE @,
                            !.next_action_after =
                                IF asks THEN t + HoursToDays(PLANNER_WAIT_BEFORE_FOLLOWUP_HOURS)
                                ELSE @]]
    IN  IF key \in DOMAIN state.cooldowns
        THEN [st1 EXCEPT !.cooldowns[key] = t + HoursToDays(PLANNER_COOLDOWN_HOURS)]
        ELSE st1

CountAction(daily, action) ==
    [threads_started |-> daily.threads_started
                            + (IF action.type = "start_thread" THEN 1 ELSE 0),
     messages_sent   |-> daily.messages_sent + 1]

\* The initiatives notify_thread_activity acts on: those that track the
\* thread and are active or waiting for a response.
TracksAnyThread(init, root) == init.status \in {"active", "waiting_response"}

Tracks(init, root) ==
    /\ init.thread_id = root
    /\ init.status \in {"active", "waiting_response"}

\* notify_thread_activity on the state it read.
Notified(state, root, user, t) ==
    [state EXCEPT !.initiatives =
        [i \in DOMAIN state.initiatives |->
            LET init == state.initiatives[i]
            IN  IF Tracks(init, root)
                THEN [init EXCEPT !.waiting_for = @ \ {user},
                                  !.status = "active",
                                  !.last_external_activity_at = t,
                                  !.updated_at = t]
                ELSE init]]

\* The actions a plan may hold.  target_user is read for ask_question and
\* follow_up only.
\* The threads the initiatives on file track, and a thread none tracks.
TrackedRoots(state) ==
    {state.initiatives[i].thread_id : i \in DOMAIN state.initiatives} \ {NoThread}

UntrackedRoot == -1

PlannerActions ==
    {a \in [type : PlanTypes, contract_id : PContracts, target_user : PUsers \cup {NoUser}] :
        a.target_user # NoUser => a.type \in {"ask_question", "follow_up"}}

\* _plan, and with it the one call of the model a cycle makes, is reached
\* only by a cycle whose scoring found candidates.
CallsModelAlways(found) == TRUE

CallsModel(found) == found

\* append_planner_log of a cycle_complete record: the records are counted,
\* and those that say candidates 0 and actions 0 are counted apart.
CycleComplete(log, found) ==
    [log EXCEPT !.cycle_complete = @ + 1,
                !.no_candidates = IF found THEN @ ELSE @ + 1]

\* What llm.call_heavy can give _plan: the call raises, the answer holds no
\* JSON, it is an object without actions, it is an object with actions.
NoAnswer == "none"
PlanAnswers == {"raised", "unparsable", "no_actions", "actions"}
FailedAnswers == {"raised", "unparsable"}

\* _plan returns [] when the call raised, when no JSON could be read from
\* the answer and when the object holds no list of actions; otherwise the
\* first three of its actions.
PlanIsEmptyOnlyWithoutActions(answer) == answer = "no_actions"

PlanIsEmpty(answer) == answer \in {"raised", "unparsable", "no_actions"}

\* A cycle that ends before executing anything: scoring found no
\* candidates, or it found some and the plan is empty (the model's call
\* failed, its answer did not parse or held no actions).  The state after
\* housekeeping is saved with last_plan_at and one cycle_complete record is
\* appended.
CycleNoActions(found, answer) ==
    /\ cpc = "idle"
    /\ pcycles < MaxCycles
    /\ WaitForNextRun(PLANNER_RUN_TIME, pfile, pnow)
    /\ CanAcquire(plock)
    /\ IF found THEN answer \in PlanAnswers /\ PlanIsEmpty(answer)
                ELSE answer = NoAnswer
    /\ pllm' = IF CallsModel(found) THEN pllm + 1 ELSE pllm
    /\ pfile' = [AbandonStale(pfile, pnow) EXCEPT !.last_plan_at = pnow]
    /\ plog' = CycleComplete(plog, found)
    /\ pcycles' = pcycles + 1
    /\ UNCHANGED <<pnow, plock, cpc, cstate, cdaily, cnow, cnum, cplan,
                   npc, nstate, nnow, nroot, nuser, psent, pexec, postSeq, plast>>
    /\ UNCHANGED notPlanner

\* A cycle with a plan: the lock is taken, the state is read and the stale
\* initiatives are abandoned; today's counters are taken from daily_stats.
CycleBegin(answer) ==
    /\ cpc = "idle"
    /\ ~PlanIsEmpty(answer)
    /\ cplan' = answer
    /\ pcycles < MaxCycles
    /\ WaitForNextRun(PLANNER_RUN_TIME, pfile, pnow)
    /\ CanAcquire(plock)
    /\ plock' = plock \cup {"cycle"}
    /\ cpc' = "act"
    /\ cnow' = pnow
    /\ cstate' = AbandonStale(pfile, pnow)
    /\ cdaily' = pfile.daily_stats[pnow]
    /\ cnum' = 0
    /\ pcycles' = pcycles + 1
    /\ pllm' = IF CallsModel(TRUE) THEN pllm + 1 ELSE pllm
    /\ UNCHANGED <<pnow, pfile, plog, npc, nstate, nnow, nroot, nuser,
                   psent, pexec, postSeq, plast>>
    /\ UNCHANGED notPlanner

\* The history of executions: per cooldown key, and per initiative for the
\* actions that ask (ask_question, follow_up), how many there were and when
\* the last one was.
NoHistory ==
    [byKey |-> [key \in CooldownKeys |-> [n |-> 0, at |-> NoTime]],
     asked |-> [i \in 1..MaxInitiatives |-> [n |-> 0, at |-> NoTime]]]

Remembered(last, idx, action, t) ==
    LET key == <<action.type, action.contract_id>>
    IN  [byKey |-> IF key \in CooldownKeys
                   THEN [last.byKey EXCEPT ![key] = [n |-> @.n + 1, at |-> t]]
                   ELSE last.byKey,
         asked |-> IF action.type \in {"ask_question", "follow_up"}
                   THEN [last.asked EXCEPT ![idx] = [n |-> @.n + 1, at |-> t]]
                   ELSE last.asked]

\* One turn of the loop over the plan's actions (at most 3).
CycleAct(action, outcome) ==
    /\ cpc = "act"
    /\ cnum < PlanMaxActions
    /\ cnum' = cnum + 1
    /\ outcome \in Outcomes(action.type)
    /\ MessagePosted(outcome) => postSeq < MaxPosts
    /\ IF ~CheckLimits(action, cstate, cdaily, cnow)
       THEN UNCHANGED <<cstate, cdaily, plog, psent, pexec, postSeq, plast>>
       ELSE LET idx == InitiativeIndex(cstate, action.contract_id)
                withInit == WithInitiative(cstate, action.contract_id, cnow)
                day == cnow
                post == postSeq + 1
            IN  /\ idx <= MaxInitiatives
                /\ IF MessagePosted(outcome)
                   THEN /\ postSeq' = post
                        /\ psent' = [psent EXCEPT ![day] = CountAction(@, action)]
                   ELSE UNCHANGED <<postSeq, psent>>
                /\ IF outcome = "ok"
                   THEN /\ cstate' = Executed(withInit, idx, action, post, cnow)
                        /\ cdaily' = CountAction(cdaily, action)
                        /\ pexec' = [pexec EXCEPT ![<<idx, day>>] = @ + 1]
                        /\ plog' = [plog EXCEPT !.action_executed = @ + 1]
                        /\ plast' = Remembered(plast, idx, action, cnow)
                   ELSE /\ cstate' = withInit
                        /\ UNCHANGED <<cdaily, pexec, plog, plast>>
    /\ UNCHANGED <<pnow, pfile, plock, cpc, cnow, pcycles,
                   npc, nstate, nnow, nroot, nuser, pllm, cplan>>
    /\ UNCHANGED notPlanner

\* Persist: today's counters go back into daily_stats, the state is saved
\* with last_plan_at, cycle_complete is logged and the lock is released.
CycleEnd ==
    /\ cpc = "act"
    /\ cnum >= 1
    /\ pfile' = [cstate EXCEPT !.daily_stats[cnow] = cdaily,
                               !.last_plan_at = cnow]
    /\ plog' = CycleComplete(plog, TRUE)
    /\ plock' = plock \ {"cycle"}
    /\ cpc' = "idle"
    /\ cstate' = NoState
    /\ cdaily' = DefaultDaily
    /\ cnum' = 0
    /\ cplan' = NoAnswer
    /\ cnow' = 0
    /\ UNCHANGED <<pnow, pcycles, npc, nstate, nnow, nroot, nuser,
                   psent, pexec, postSeq, plast, pllm>>
    /\ UNCHANGED notPlanner

\* The listener saw a reply by `user` in the thread `root` and calls the
\* hook, which takes the lock and reads the state.
NotifyBegin(root, user) ==
    /\ npc = "idle"
    /\ CanAcquire(plock)
    /\ plock' = plock \cup {"notify"}
    /\ npc' = "held"
    /\ nroot' = root
    /\ nuser' = user
    /\ nstate' = pfile
    /\ nnow' = pnow
    /\ UNCHANGED <<pnow, pfile, plog, cpc, cstate, cdaily, cnow, cnum, cplan,
                   pcycles, psent, pexec, postSeq, plast, pllm>>
    /\ UNCHANGED notPlanner

\* The hook saves the state if an initiative tracked the thread, and
\* releases the lock.
NotifyEnd ==
    /\ npc = "held"
    /\ LET after == Notified(nstate, nroot, nuser, nnow)
           changed == \E i \in DOMAIN nstate.initiatives :
                         Tracks(nstate.initiatives[i], nroot)
       IN  pfile' = IF changed THEN after ELSE pfile
    /\ plock' = plock \ {"notify"}
    /\ npc' = "idle"
    /\ nstate' = NoState
    /\ nnow' = 0
    /\ nroot' = NoThread
    /\ nuser' = "u1"
    /\ UNCHANGED <<pnow, plog, cpc, cstate, cdaily, cnow, cnum, cplan, pcycles,
                   psent, pexec, postSeq, plast, pllm>>
    /\ UNCHANGED notPlanner

\* A day passes.  The cycle and the hook each read the clock once, when
\* they start (planner.py:156, 67), and hold the lock until they are done,
\* so a day that passes while one of them runs changes nothing it does: the
\* clock moves between calls.
PTick ==
    /\ pnow < MaxPDays
    /\ cpc = "idle"
    /\ npc = "idle"
    /\ pnow' = pnow + 1
    /\ UNCHANGED <<pfile, plog, plock, cpc, cstate, cdaily, cnow, cnum, cplan,
                   pcycles, npc, nstate, nnow, nroot, nuser, psent, pexec, postSeq, plast, pllm>>
    /\ UNCHANGED notPlanner

PlannerInit ==
    /\ pnow = 0
    /\ pfile = DefaultPlannerState
    /\ plog = [cycle_complete |-> 0, no_candidates |-> 0, action_executed |-> 0]
    /\ plock = {}
    /\ cpc = "idle"
    /\ cstate = NoState
    /\ cdaily = DefaultDaily
    /\ cnow = 0
    /\ cnum = 0
    /\ cplan = NoAnswer
    /\ pcycles = 0
    /\ npc = "idle"
    /\ nstate = NoState
    /\ nnow = 0
    /\ nroot = NoThread
    /\ nuser = "u1"
    /\ psent = [d \in Days |-> DefaultDaily]
    /\ pexec = [k \in (1..MaxInitiatives) \X Days |-> 0]
    /\ postSeq = 0
    /\ plast = NoHistory
    /\ pllm = 0

(***************************************************************************)
(* Memory: the active threads.  An entry is {root_post_id, updated_at};    *)
(* updated_at is an ISO string, modelled by the day it names and by        *)
(* whether it carries a UTC offset.                                        *)
(***************************************************************************)
TContracts == {"headcount", "revenue"}
Roots == {"root_abc", "root_def"}
NoEntry == [root_post_id |-> "", updated_at |-> [day |-> NoTime, tz |-> "none"]]
NoRoot == ""

\* datetime.now(timezone.utc).isoformat()
IsoNow(t) == [day |-> t, tz |-> "utc"]

\* now - fromisoformat(updated_at) > timedelta(days=THREAD_TTL_DAYS); the
\* subtraction raises TypeError for a string without offset, which
\* get_active_thread catches.
ExpiredNever(updated_at, t) == FALSE

Expired(updated_at, t) ==
    /\ updated_at.tz = "utc"
    /\ t - updated_at.day > THREAD_TTL_DAYS

\* get_active_thread on the file's content.
GetActiveThreadResult(threads, cid, t) ==
    IF threads[cid] = NoEntry THEN NoRoot
    ELSE IF threads[cid].updated_at.day # NoTime /\ Expired(threads[cid].updated_at, t)
         THEN NoRoot
         ELSE threads[cid].root_post_id

GetActiveThread(cid) ==
    /\ tres' = [contract_id |-> cid, at |-> tnow, entry |-> tfile[cid],
                result |-> GetActiveThreadResult(tfile, cid, tnow)]
    /\ UNCHANGED <<tnow, tfile, treply>>
    /\ UNCHANGED notThreads

\* threads[contract_id] = {"root_post_id": ..., "updated_at": now}
RegisteredNowhere(threads, cid, root, t) == threads

Registered(threads, cid, root, t) ==
    [threads EXCEPT ![cid] = [root_post_id |-> root, updated_at |-> IsoNow(t)]]

\* set_active_thread; the write may fail after its retries.
SetActiveThread(cid, root) ==
    /\ \E ok \in BOOLEAN :
         tfile' = IF ok THEN Registered(tfile, cid, root, tnow) ELSE tfile
    /\ UNCHANGED <<tnow, tres, treply>>
    /\ UNCHANGED notThreads

\* cleanup_expired_threads: entries that are expired or carry no readable
\* updated_at are deleted.
CleanupExpiredThreads ==
    /\ tfile' = [c \in TContracts |->
                    IF tfile[c] # NoEntry
                       /\ (tfile[c].updated_at.day = NoTime
                           \/ tfile[c].updated_at.tz # "utc"
                           \/ Expired(tfile[c].updated_at, tnow))
                    THEN NoEntry ELSE tfile[c]]
    /\ UNCHANGED <<tnow, tres, treply>>
    /\ UNCHANGED notThreads

(***************************************************************************)
(* Agent.process_message, thread tracking.  A channel message of a         *)
(* discussion-shaped intent that carries an entity is tracked: a top-level *)
(* one is attached to the active thread of its entity when there is one,   *)
(* and after the reply the entity is registered under the first non-empty  *)
(* of the message's thread root, the root found, the message's post id.    *)
(***************************************************************************)
THREAD_TRACKING_TYPES == {"contract_discussion", "new_contract_init", "problem_report"}
RouteTypes == THREAD_TRACKING_TYPES \cup {"general_question"}
NoEntity == ""
IncomingPost == "new_post"
NoReply == [type |-> "none", entity |-> NoEntity, channel |-> "none",
            root_id |-> NoRoot, post_id |-> NoRoot, existing |-> NoRoot]

\* a or b or c
LastOf(roots) == roots[Len(roots)]

RECURSIVE FirstNonEmpty(_)
FirstNonEmpty(roots) ==
    IF Len(roots) = 1 \/ Head(roots) # NoRoot THEN Head(roots)
    ELSE FirstNonEmpty(Tail(roots))

Tracked(type, entity, channel) ==
    /\ channel = "channel"
    /\ type \in THREAD_TRACKING_TYPES
    /\ entity # NoEntity

AgentReply(type, entity, channel, root_id, post_id) ==
    LET existing == IF Tracked(type, entity, channel) /\ root_id = NoRoot
                    THEN GetActiveThreadResult(tfile, entity, tnow)
                    ELSE NoRoot
    IN  /\ treply' = [type |-> type, entity |-> entity, channel |-> channel,
                      root_id |-> root_id, post_id |-> post_id, existing |-> existing]
        /\ tfile' = IF Tracked(type, entity, channel)
                    THEN Registered(tfile, entity,
                                    FirstNonEmpty(<<root_id, existing, post_id>>), tnow)
                    ELSE tfile
        /\ UNCHANGED <<tnow, tres>>
        /\ UNCHANGED notThreads

TTick ==
    /\ tnow < MaxTDays
    /\ tnow' = tnow + 1
    /\ UNCHANGED <<tfile, tres, treply>>
    /\ UNCHANGED notThreads

ThreadsInit ==
    /\ tnow = 0
    /\ tfile = [c \in TContracts |-> NoEntry]
    /\ tres = [contract_id |-> "headcount", at |-> 0, entry |-> NoEntry, result |-> NoRoot]
    /\ treply = NoReply

(***************************************************************************)
(* read_roles: _merge_roles over context/roles.json (the defaults, edited  *)
(* by hand) and tasks/roles.json (written by assign_role).  A role's users *)
(* are a list of names as written, case included.                          *)
(***************************************************************************)
Names == {"alice", "Alice", "bob"}
Lower == [n \in Names |-> IF n = "Alice" THEN "alice" ELSE n]
RoleKeys == {"data_lead", "circle_lead"}
NoResult == <<>>

\* The inner loop's body: u.lower() is appended unless already there.
AppendUserAsWritten(cur, u) == Append(cur, u)

AppendUser(cur, u) ==
    IF Lower[u] \in Range(cur) THEN cur ELSE Append(cur, Lower[u])

RECURSIVE AppendUsers(_, _)
AppendUsers(cur, users) ==
    IF users = <<>> THEN cur
    ELSE AppendUsers(AppendUser(cur, Head(users)), Tail(users))

\* _merge_roles: the defaults first, then the runtime file.
MergeRoleLists(defaults, runtime) ==
    [r \in RoleKeys |-> AppendUsers(AppendUsers(<<>>, defaults[r]), runtime[r])]

\* context/roles.json is edited: a name is listed under a role.
ListInContext(r, u) ==
    /\ Len(mrDefaults[r]) < MaxListed
    /\ mrDefaults' = [mrDefaults EXCEPT ![r] = Append(@, u)]
    /\ mrResult' = NoResult
    /\ UNCHANGED mrRuntime
    /\ UNCHANGED notRoles

\* _tool_assign_role on tasks/roles.json: the list is rewritten in lower
\* case with the username added if it is not there.
AssignRoleListed(r, u) ==
    /\ mrRuntime' = [mrRuntime EXCEPT ![r] = AppendUser(AppendUsers(<<>>, @), u)]
    /\ mrResult' = NoResult
    /\ UNCHANGED mrDefaults
    /\ UNCHANGED notRoles

\* _tool_read_roles
ReadRoles ==
    /\ mrResult' = MergeRoleLists(mrDefaults, mrRuntime)
    /\ UNCHANGED <<mrDefaults, mrRuntime>>
    /\ UNCHANGED notRoles

RolesInit ==
    /\ mrDefaults = [r \in RoleKeys |-> <<>>]
    /\ mrRuntime = [r \in RoleKeys |-> <<>>]
    /\ mrResult = NoResult


(***************************************************************************)
(* ToolExecutor.execute and the write tools.  A handler makes its Store    *)
(* writes one after the other, each through Memory._retry_io, and then     *)
(* returns {"success": True, ...}; an exception that leaves the handler is *)
(* turned by execute into {"error": ...}.  save_contract goes on, after    *)
(* its own writes, to writes it makes inside try/except blocks of its own. *)
(***************************************************************************)
WRITE_MAX_RETRIES == 3
\* in milliseconds
WRITE_BACKOFF_BASE == 500

NoTool == ""
WriteTools == {"save_contract", "save_draft", "update_discussion", "add_reminder",
               "update_participant", "save_decision", "assign_role",
               "set_contract_status"}

W(file) == [file |-> file, bestEffort |-> FALSE]
B(file) == [file |-> file, bestEffort |-> TRUE]

\* The Store writes of a handler, in order.
ToolWrites(tool) ==
    CASE tool = "save_contract" ->
            <<W("contracts/x.md"), W("contracts/index.json"),
              B("contracts/relationships.json"), B("context/metrics_tree.md")>>
      [] tool = "save_draft" -> <<W("drafts/x.md"), W("contracts/index.json")>>
      [] tool = "update_discussion" -> <<W("drafts/x_discussion.json")>>
      [] tool = "add_reminder" -> <<W("tasks/reminders.json")>>
      [] tool = "update_participant" -> <<W("participants/u.md")>>
      [] tool = "save_decision" -> <<W("memory/decisions.jsonl")>>
      [] tool = "assign_role" -> <<W("tasks/roles.json")>>
      [] tool = "set_contract_status" -> <<W("contracts/index.json")>>
      [] OTHER -> <<>>

OwnFiles(tool) ==
    {ToolWrites(tool)[i].file : i \in {j \in 1..Len(ToolWrites(tool)) :
                                          ~ToolWrites(tool)[j].bestEffort}}

\* What a handler answers to arguments it refuses before any write:
\* save_contract with a failed gate and set_contract_status with a status
\* that is not allowed answer {"success": False, ...}; a reminder, decision
\* or discussion that is not an object and an empty role or username answer
\* {"error": ...}.  save_draft and update_participant refuse nothing.
Refusal(tool) ==
    IF tool \in {"save_contract", "set_contract_status"} THEN "success_false"
    ELSE IF tool \in {"add_reminder", "save_decision", "update_discussion", "assign_role"}
         THEN "error"
    ELSE "none"

\* _retry_io after an attempt that raised OSError: sleep and try again, or,
\* on the last attempt, re-raise.
RetryIo(attempt) == IF attempt < WRITE_MAX_RETRIES THEN "retry" ELSE "raise"

\* delay = WRITE_BACKOFF_BASE * (2 ** (attempt - 1))
DelayFlat(attempt) == WRITE_BACKOFF_BASE

Delay(attempt) == WRITE_BACKOFF_BASE * 2^(attempt - 1)

NoRetry == [failed |-> 0, slept |-> <<>>]
NoWrite == <<>>

\* _retry_io is left, by return or by raise, at the given attempt.
Ended(attempt, retry, outcome) ==
    [attempts |-> attempt, failed |-> retry.failed, slept |-> retry.slept,
     outcome |-> outcome]

\* Whether the OSError of a write that was given up leaves the handler: it
\* does unless the write stands inside a try/except of the handler.
PropagatesNever(w) == FALSE

Propagates(w) == ~w.bestEffort

\* execute(tool_name, args), up to the handler's first write.
Execute(tool, valid) ==
    /\ wpc = "idle"
    /\ wtool' = tool
    /\ wdone' = {}
    /\ IF ~valid
       THEN /\ Refusal(tool) # "none"
            /\ wresult' = Refusal(tool)
            /\ UNCHANGED <<wpc, wstep, wattempt>>
       ELSE /\ wpc' = "writing"
            /\ wstep' = 1
            /\ wattempt' = 1
            /\ wresult' = "none"
    /\ UNCHANGED <<wfiles, wretry, wlast>>
    /\ UNCHANGED notTools

\* The handler after write number wstep is over: the next write, or the
\* return of {"success": True, ...}.
AfterWrite ==
    IF wstep = Len(ToolWrites(wtool))
    THEN /\ wpc' = "idle"
         /\ wresult' = "success"
         /\ wstep' = 0
         /\ wattempt' = 0
    ELSE /\ wstep' = wstep + 1
         /\ wattempt' = 1
         /\ UNCHANGED <<wpc, wresult>>

\* One attempt of _retry_io at the write under way.
WriteAttempt(ok) ==
    /\ wpc = "writing"
    /\ LET w == ToolWrites(wtool)[wstep]
       IN  IF ok
           THEN /\ wfiles' = wfiles \cup {w.file}
                /\ wdone' = wdone \cup {w.file}
                /\ wlast' = Ended(wattempt, wretry, "returned")
                /\ wretry' = NoRetry
                /\ AfterWrite
           ELSE /\ UNCHANGED <<wfiles, wdone>>
                /\ IF RetryIo(wattempt) = "retry"
                   THEN /\ wattempt' = wattempt + 1
                        /\ wretry' = [failed |-> wretry.failed + 1,
                                      slept |-> Append(wretry.slept, Delay(wattempt))]
                        /\ UNCHANGED <<wpc, wstep, wresult, wlast>>
                   ELSE /\ wlast' = Ended(wattempt,
                                          [wretry EXCEPT !.failed = @ + 1], "raised")
                        /\ wretry' = NoRetry
                        /\ IF Propagates(w)
                           THEN /\ wpc' = "idle"
                                /\ wresult' = "error"
                                /\ wstep' = 0
                                /\ wattempt' = 0
                           ELSE AfterWrite
    /\ UNCHANGED wtool
    /\ UNCHANGED notTools

ToolsInit ==
    /\ wpc = "idle"
    /\ wtool = NoTool
    /\ wstep = 0
    /\ wattempt = 0
    /\ wdone = {}
    /\ wresult = "none"
    /\ wfiles = {}
    /\ wretry = NoRetry
    /\ wlast = NoWrite


(***************************************************************************)
(* The gates of _tool_save_contract, as a function of the call and of the  *)
(* roles on file: the errors it collects and whether it goes on to         *)
(* Memory.save_contract.  And _tool_check_approval, the same approval      *)
(* check on its own, under the tier the index records for the contract.    *)
(***************************************************************************)
NoCall == <<>>

SaveContractGates(c, k, force, govRaises) ==
    /\ gres' = [tool |-> "save_contract",
                k |-> k, force |-> force, govRaises |-> govRaises, roles |-> rolesFile,
                errors |-> SaveErrors(c, k, force, govRaises),
                saves |-> CommitAllowed(SaveErrors(c, k, force, govRaises))]
    /\ UNCHANGED notGates

ToolCheckApproval(k, tier) ==
    /\ gres' = [tool |-> "check_approval", k |-> k, tier |-> tier, roles |-> rolesFile,
                checkOk |-> ApprovalOk(k, Governance[tier], MergeRoles(rolesFile)),
                ok |-> /\ ApprovalOk(k, Governance[tier], MergeRoles(rolesFile))
                       /\ ~GlossaryAmbiguous(k),
                missing_roles |-> MissingRoles(k, Governance[tier], MergeRoles(rolesFile))]
    /\ UNCHANGED notGates

GatesInit == gres = NoCall


(***************************************************************************)
(* LLMClient.call_with_tools: at most max_turns turns, one request to the  *)
(* model in each.  A rate limit or a server error ends the turn; any other *)
(* API error leaves the call; an answer without tool calls is returned;    *)
(* an answer with tool calls has each of them executed and its result      *)
(* appended to messages.  After the last turn the call returns the last    *)
(* message that has text.                                                  *)
(***************************************************************************)
MaxRequests == MaxTurns + 1

Responses == {"rate_limit", "server_error", "client_error", "text", "tool_calls"}
Retried == {"rate_limit", "server_error"}
NoResponse == "none"

\* for turn in range(max_turns): `continue` and the end of the body both go
\* on to the next turn.
NextTurnRetrying(turn, resp) == IF resp \in Retried THEN turn ELSE turn + 1

NextTurn(turn, resp) == turn + 1

\* call_with_tools is entered: messages holds the system and the user
\* message.
CallWithTools(max_turns) ==
    /\ qpc \in {"idle", "done"}
    /\ qpc' = "loop"
    /\ qmax' = max_turns
    /\ qturn' = 0
    /\ qreqs' = 0
    /\ qmsgs' = 2
    /\ qlast' = NoResponse
    /\ qresult' = "none"
    /\ UNCHANGED notToolLoop

\* One turn: the request, and what the loop does with what it gives.
\* executorRaises: tool_executor raises on one of the tool calls.
Turn(resp, ntools, executorRaises) ==
    /\ qpc = "loop"
    /\ qturn < qmax
    /\ qreqs < MaxRequests
    /\ qreqs' = qreqs + 1
    /\ qlast' = resp
    /\ CASE resp \in Retried ->
              /\ qturn' = NextTurn(qturn, resp)
              /\ UNCHANGED <<qpc, qmsgs, qresult>>
         [] resp = "client_error" ->
              /\ qpc' = "done"
              /\ qresult' = "raised"
              /\ UNCHANGED <<qturn, qmsgs>>
         [] resp = "text" ->
              /\ qpc' = "done"
              /\ qresult' = "text"
              /\ UNCHANGED <<qturn, qmsgs>>
         [] resp = "tool_calls" ->
              IF executorRaises
              THEN /\ qpc' = "done"
                   /\ qresult' = "raised"
                   /\ qmsgs' = qmsgs + 1
                   /\ UNCHANGED qturn
              ELSE /\ qturn' = NextTurn(qturn, resp)
                   /\ qmsgs' = qmsgs + 1 + ntools
                   /\ UNCHANGED <<qpc, qresult>>
    /\ UNCHANGED qmax
    /\ UNCHANGED notToolLoop

\* The loop is over: the last message with text is returned.
MaxTurnsExceeded ==
    /\ qpc = "loop"
    /\ qturn >= qmax
    /\ qpc' = "done"
    /\ qresult' = "last_text"
    /\ UNCHANGED <<qmax, qturn, qreqs, qmsgs, qlast>>
    /\ UNCHANGED notToolLoop

LoopStep ==
    \/ \E resp \in Responses, ntools \in 1..MaxToolCalls, executorRaises \in BOOLEAN :
          Turn(resp, ntools, executorRaises)
    \/ MaxTurnsExceeded

ToolLoopInit ==
    /\ qpc = "idle"
    /\ qmax = 0
    /\ qturn = 0
    /\ qreqs = 0
    /\ qmsgs = 0
    /\ qlast = NoResponse
    /\ qresult = "none"


(***************************************************************************)
(* Memory.write_file, write_json and write_batch on the file tree, next to *)
(* a reader of the same files and a crash of the writing process.  The     *)
(* content of a file is the sequence of the chunks that reached it; a      *)
(* content is whole when all MaxChunks chunks of one version are there.    *)
(***************************************************************************)
WPaths == {"contracts/index.json", "contracts/x.md"}
Versions == {1, 2}

Text(v) == [i \in 1..MaxChunks |-> v]

Whole(data) == \E v \in Versions : data = Text(v)

BatchArgs == {<<"contracts/x.md">>,
              <<"contracts/x.md", "contracts/index.json">>,
              <<"contracts/index.json", "contracts/x.md">>}

NoJob == [kind |-> "none", path |-> "", v |-> 0]
NoObs == [by |-> "none", during |-> "none", path |-> "", data |-> <<>>]

\* write_file / write_json, _do: open(full, "w") truncates the target.
OpenForWrite(kind, path, v) ==
    /\ fpc = "idle"
    /\ fcount < MaxWrites
    /\ fcount' = fcount + 1
    /\ fpc' = "writing"
    /\ fjob' = [kind |-> kind, path |-> path, v |-> v]
    /\ disk' = [disk EXCEPT ![path] = <<>>]
    /\ UNCHANGED <<staged, fobs>>
    /\ UNCHANGED notWrites

\* f.write(content), and the flush at the end of the with block: the
\* content reaches the open target chunk by chunk.
WriteChunk ==
    /\ fpc = "writing"
    /\ Len(disk[fjob.path]) < MaxChunks
    /\ disk' = [disk EXCEPT ![fjob.path] = Append(@, fjob.v)]
    /\ IF Len(disk'[fjob.path]) = MaxChunks
       THEN /\ fpc' = "idle"
            /\ fjob' = NoJob
       ELSE UNCHANGED <<fpc, fjob>>
    /\ UNCHANGED <<staged, fcount, fobs>>
    /\ UNCHANGED notWrites

\* write_batch, first loop: every content is written to a temp file of its
\* own (mkstemp) in the directory of its target.
BatchStage(paths, v) ==
    /\ fpc = "idle"
    /\ fcount < MaxWrites
    /\ fcount' = fcount + 1
    /\ fpc' = "renaming"
    /\ fjob' = [kind |-> "write_batch", path |-> paths[1], v |-> v]
    /\ staged' = [i \in 1..Len(paths) |-> [final |-> paths[i], tmp |-> Text(v)]]
    /\ UNCHANGED <<disk, fobs>>
    /\ UNCHANGED notWrites

\* write_batch, second loop: os.replace(tmp, final), one file at a time.
BatchRename ==
    /\ fpc = "renaming"
    /\ staged # <<>>
    /\ disk' = [disk EXCEPT ![Head(staged).final] = Head(staged).tmp]
    /\ staged' = Tail(staged)
    /\ IF Tail(staged) = <<>>
       THEN /\ fpc' = "idle"
            /\ fjob' = NoJob
       ELSE UNCHANGED <<fpc, fjob>>
    /\ UNCHANGED <<fcount, fobs>>
    /\ UNCHANGED notWrites

\* read_file in another thread (listener handlers, the scheduler and the
\* planner all read through the same Memory).
ReadTarget(path) ==
    /\ fobs' = [by |-> "reader", during |-> fjob.kind, path |-> path, data |-> disk[path]]
    /\ UNCHANGED <<disk, staged, fpc, fjob, fcount>>
    /\ UNCHANGED notWrites

\* The process stops in the middle of a write; the next process finds the
\* target as it was left.
Crash(path) ==
    /\ fpc # "idle"
    /\ fpc' = "idle"
    /\ fjob' = NoJob
    /\ staged' = <<>>
    /\ fobs' = [by |-> "crash", during |-> fjob.kind, path |-> path, data |-> disk[path]]
    /\ UNCHANGED <<disk, fcount>>
    /\ UNCHANGED notWrites

WritesInit ==
    /\ disk = [p \in WPaths |-> Text(1)]
    /\ staged = <<>>
    /\ fpc = "idle"
    /\ fjob = NoJob
    /\ fcount = 0
    /\ fobs = NoObs


(***************************************************************************)
(* A message on its way through Agent.process_message, in the channel or   *)
(* in a DM: the tool catalog of its route, the lifecycle steps the Agent   *)
(* takes itself, and the side-effect blocks of the model's answer.  The    *)
(* state is the status of one contract in contracts/index.json, the number *)
(* of saves of its text and the number of reminders on file.               *)
(***************************************************************************)
READ_TOOLS == {"read_contract", "read_draft", "read_discussion", "read_governance_policy",
               "read_roles", "validate_contract", "check_approval", "diff_contract",
               "generate_contract_template", "participant_stats", "list_contracts"}
WRITE_TOOLS == {"save_contract", "save_draft", "update_discussion", "add_reminder",
                "update_participant", "save_decision", "assign_role",
                "set_contract_status", "request_approval", "approve_contract",
                "create_poll"}
GENERAL_TOOL_NAMES == {"read_contract", "read_draft", "list_contracts"}

GetToolsForRoute(route_type, is_channel) ==
    IF route_type = "profile_intro"
    THEN {t \in WRITE_TOOLS : t = "update_participant"}
    ELSE IF route_type = "general_question"
         THEN {t \in READ_TOOLS : t \in GENERAL_TOOL_NAMES}
         ELSE READ_TOOLS \cup (IF is_channel THEN WRITE_TOOLS ELSE {})

ALLOWED_STATUSES == {"draft", "in_review", "approved", "active", "deprecated", "archived"}
NoRecord == "missing"
LifecycleTypes == {"new_contract_init", "contract_discussion", "problem_report"}
LlmTypes == LifecycleTypes \cup {"profile_intro", "general_question"}
MessageTypes == LlmTypes \cup {"lifecycle_set_status"}
Blocks == {"SAVE_CONTRACT", "ADD_REMINDER"}

\* lifecycle.set_status on the index record of the contract
SetStatus(prev, status) == IF status \in ALLOWED_STATUSES THEN status ELSE prev

\* lifecycle.ensure_in_review
EnsureInReview(prev) ==
    IF prev \in {NoRecord, "draft"} THEN SetStatus(prev, "in_review") ELSE prev

\* allow_contract_write of _handle_side_effects
AllowContractWrite(type, channel, explicit) ==
    IF channel = "dm" THEN FALSE ELSE explicit /\ type \in LifecycleTypes

NoMessage == [channel |-> "none", type |-> "none", catalog |-> {}]

\* explicit: the message holds one of the verbs that ask for a save;
\* blocks: the side-effect blocks in the model's answer; status: the status
\* named by a "set status" message.
ProcessMessage(channel, type, status, explicit, blocks) ==
    LET reviewed == IF type \in LifecycleTypes THEN EnsureInReview(dstatus) ELSE dstatus
        can_write == AllowContractWrite(type, channel, explicit)
    IN  /\ dn < MaxMessages
        /\ dn' = dn + 1
        /\ IF type = "lifecycle_set_status"
           THEN /\ dstatus' = SetStatus(reviewed, status)
                /\ dmsg' = [channel |-> channel, type |-> type, catalog |-> {}]
                /\ UNCHANGED <<dsaved, dreminders>>
           ELSE /\ dstatus' = reviewed
                /\ dmsg' = [channel |-> channel, type |-> type,
                            catalog |-> GetToolsForRoute(type, channel = "channel")]
                /\ dsaved' = IF "SAVE_CONTRACT" \in blocks /\ can_write
                             THEN dsaved + 1 ELSE dsaved
                /\ dreminders' = IF "ADD_REMINDER" \in blocks
                                 THEN dreminders + 1 ELSE dreminders
        /\ UNCHANGED notDm

DmInit ==
    /\ dstatus = NoRecord
    /\ dsaved = 0
    /\ dreminders = 0
    /\ dn = 0
    /\ dmsg = NoMessage


(***************************************************************************)
(* The approval tools.  request_approval seeds the approval_state of a     *)
(* contract's discussion and keeps the votes it finds there;               *)
(* approve_contract records the vote of a caller who holds one of the      *)
(* required roles and has not voted yet.                                   *)
(***************************************************************************)
VContracts == {"test_metric", "revenue"}
Voters == Names \cup {"unknown_user"}
RequiredRoles == {"circle_lead", "data_lead"}
NoApproval == [started |-> FALSE, approvals |-> <<>>]
NoVote == [tool |-> "none", contract_id |-> "", username |-> "",
           success |-> FALSE, already_approved |-> FALSE, quorum_met |-> FALSE]

\* username.lstrip("@").lower()
Normalized(u) == IF u \in Names THEN Lower[u] ELSE u

\* The role the caller holds in the merged role map, "" for none.
VoterRole(u) ==
    CASE u = "alice" -> "data_lead"
      [] u = "bob" -> "circle_lead"
      [] OTHER -> ""

HasVoted(approvals, u) == \E i \in 1..Len(approvals) : approvals[i].username = u

\* The votes after the caller's: a second vote of a user adds nothing.
RecordVoteAgain(approvals, u) == Append(approvals, [username |-> u, role |-> VoterRole(u)])

RecordVote(approvals, u) ==
    IF HasVoted(approvals, u) THEN approvals
    ELSE Append(approvals, [username |-> u, role |-> VoterRole(u)])

QuorumMet(approvals) ==
    RequiredRoles \subseteq {approvals[i].role : i \in 1..Len(approvals)}

RequestApproval(cid) ==
    /\ vn < MaxVotes
    /\ vn' = vn + 1
    /\ vstate' = [vstate EXCEPT ![cid] = [started |-> TRUE, approvals |-> @.approvals]]
    /\ vres' = [NoVote EXCEPT !.tool = "request_approval", !.contract_id = cid, !.success = TRUE]
    /\ UNCHANGED notApproval

ApproveContract(cid, username) ==
    LET u == Normalized(username)
        ok == vstate[cid].started /\ VoterRole(u) \in RequiredRoles
        votes == RecordVote(vstate[cid].approvals, u)
    IN  /\ vn < MaxVotes
        /\ vn' = vn + 1
        /\ vstate' = IF ok THEN [vstate EXCEPT ![cid].approvals = votes] ELSE vstate
        /\ vres' = [tool |-> "approve_contract", contract_id |-> cid, username |-> username,
                    success |-> ok,
                    already_approved |-> ok /\ HasVoted(vstate[cid].approvals, u),
                    quorum_met |-> ok /\ QuorumMet(votes)]
        /\ UNCHANGED notApproval

ApprovalInit ==
    /\ vstate = [c \in VContracts |-> NoApproval]
    /\ vres = NoVote
    /\ vn = 0


(***************************************************************************)
(* The planner's cycle over several contracts: each cycle has a plan of    *)
(* one action, and runs from reading the state to saving it under the      *)
(* planner's lock.                                                         *)
(***************************************************************************)
IContracts == {"a", "b", "c"}

\* The plans: an action that opens a thread, one that asks, one that follows
\* up, and one of a type the dispatcher does not know.
IPlanTypes == {"start_thread", "ask_question", "follow_up", "unknown"}

IActions == [type : IPlanTypes, contract_id : IContracts, target_user : {NoUser}]

\* tasks/planner_state.json when the file is absent.
IDefaultState ==
    [DefaultPlannerState EXCEPT
        !.cooldowns = [k \in {"propose_resolution", "follow_up"} \X IContracts |-> NoTime]]

\* _run_cycle with a plan that holds `action`: the stale initiatives are
\* abandoned, the limits are checked, the initiative is found or created,
\* the action is dispatched and, if it gave a result, booked; the state is
\* saved with today's counters and last_plan_at.
RunCycle(action, outcome) ==
    /\ iplans < MaxPlans
    /\ outcome \in Outcomes(action.type)
    /\ LET state == AbandonStale(ifile, inow)
           daily == state.daily_stats[inow]
           allowed == CheckLimits(action, state, daily, inow)
           idx == InitiativeIndex(state, action.contract_id)
           withInit == WithInitiative(state, action.contract_id, inow)
           after == IF ~allowed THEN state
                    ELSE IF outcome = "ok"
                         THEN Executed(withInit, idx, action, iplans + 1, inow)
                         ELSE withInit
           counted == IF allowed /\ outcome = "ok"
                      THEN CountAction(daily, action) ELSE daily
       IN  ifile' = [after EXCEPT !.daily_stats[inow] = counted,
                                  !.last_plan_at = inow]
    /\ iplans' = iplans + 1
    /\ UNCHANGED inow
    /\ UNCHANGED notInitiatives

\* A day passes between two cycles.
ITick ==
    /\ inow < MaxPDays
    /\ inow' = inow + 1
    /\ UNCHANGED <<ifile, iplans>>
    /\ UNCHANGED notInitiatives

InitiativesInit ==
    /\ inow = 0
    /\ ifile = IDefaultState
    /\ iplans = 0

Init ==
    /\ now = 0
    /\ ListenerInit
    /\ StoreInit
    /\ SchedulerInit
    /\ PlannerInit
    /\ ThreadsInit
    /\ RolesInit
    /\ ToolsInit
    /\ GatesInit
    /\ ToolLoopInit
    /\ WritesInit
    /\ DmInit
    /\ ApprovalInit
    /\ InitiativesInit

ListenerNext ==
    \/ \E h \in Handlers, p \in Posts : Deliver(h, p)
    \/ \E h \in Handlers : ProcessPosted(h)
    \/ \E h \in Handlers : Finish(h)
    \/ \E h \in Handlers : PersistRead(h)
    \/ \E h \in Handlers : PersistWrite(h)
    \/ (Tick /\ UNCHANGED <<lvars, notListener>>)

StoreNext ==
    \/ \E c \in Contracts, k \in Contents, force \in BOOLEAN, govRaises \in BOOLEAN :
         ToolSaveContract(c, k, force, govRaises)
    \/ \E a \in Assignments : ToolAssignRole(a[1], a[2])

SpecStore == Init /\ [][StoreNext]_vars

SchedulerNext ==
    \/ PassStart
    \/ PassStep
    \/ PassSave
    \/ \E id \in ReminderIds, in \in ReminderInputs :
          AddReminderRead(id, in.step, rnow, in.mm)
    \/ AddReminderWrite
    \/ RTick

SpecReminders == Init /\ [][SchedulerNext]_vars

PlannerNext ==
    \/ \E found \in BOOLEAN, answer \in PlanAnswers \cup {NoAnswer} :
          CycleNoActions(found, answer)
    \/ \E answer \in PlanAnswers : CycleBegin(answer)
    \/ \E action \in PlannerActions, outcome \in {"ok", "send_failed", "sent_then_raised", "unknown"} :
          CycleAct(action, outcome)
    \/ CycleEnd
    \/ \E root \in TrackedRoots(pfile) \cup {UntrackedRoot}, user \in PUsers :
          NotifyBegin(root, user)
    \/ NotifyEnd
    \/ PTick

SpecPlanner == Init /\ [][PlannerNext]_vars

ThreadsNext ==
    \/ \E cid \in TContracts : GetActiveThread(cid)
    \/ \E cid \in TContracts, root \in Roots : SetActiveThread(cid, root)
    \/ CleanupExpiredThreads
    \/ TTick

SpecThreads == Init /\ [][ThreadsNext]_vars

\* The Agent's replies alone, as the days go by.
AgentThreadsNext ==
    \/ \E type \in RouteTypes, entity \in TContracts \cup {NoEntity},
         channel \in {"channel", "dm"}, root_id \in Roots \cup {NoRoot} :
          AgentReply(type, entity, channel, root_id, IncomingPost)
    \/ TTick

SpecAgentThreads == Init /\ [][AgentThreadsNext]_vars


RolesNext ==
    \/ \E r \in RoleKeys, u \in Names : ListInContext(r, u)
    \/ \E r \in RoleKeys, u \in Names : AssignRoleListed(r, u)
    \/ ReadRoles

SpecRoles == Init /\ [][RolesNext]_vars


ToolsNext ==
    \/ \E tool \in WriteTools, valid \in BOOLEAN : Execute(tool, valid)
    \/ \E ok \in BOOLEAN : WriteAttempt(ok)

SpecTools == Init /\ [][ToolsNext]_vars


GatesNext ==
    \/ \E a \in Assignments : ToolAssignRole(a[1], a[2])
    \/ \E c \in Contracts, k \in Contents, force \in BOOLEAN, govRaises \in BOOLEAN :
          SaveContractGates(c, k, force, govRaises)
    \/ \E k \in Contents, tier \in Tiers : ToolCheckApproval(k, tier)

SpecGates == Init /\ [][GatesNext]_vars

ToolLoopNext ==
    \/ \E max_turns \in 0..MaxTurns : CallWithTools(max_turns)
    \/ \E resp \in Responses, ntools \in 1..MaxToolCalls, executorRaises \in BOOLEAN :
          Turn(resp, ntools, executorRaises)
    \/ MaxTurnsExceeded

\* The thread that runs the loop keeps running: a request and a tool call
\* each return or raise.
SpecToolLoop == Init /\ [][ToolLoopNext]_vars /\ WF_vars(LoopStep)


WritesNext ==
    \/ \E kind \in {"write_file", "write_json"}, path \in WPaths, v \in Versions :
          OpenForWrite(kind, path, v)
    \/ WriteChunk
    \/ \E paths \in BatchArgs, v \in Versions : BatchStage(paths, v)
    \/ BatchRename
    \/ \E path \in WPaths : ReadTarget(path)
    \/ \E path \in WPaths : Crash(path)

SpecWrites == Init /\ [][WritesNext]_vars


DmNext ==
    \E channel \in {"channel", "dm"}, type \in MessageTypes,
       status \in ALLOWED_STATUSES \cup {"agreed"}, explicit \in BOOLEAN,
       blocks \in SUBSET Blocks :
        ProcessMessage(channel, type, status, explicit, blocks)

SpecDm == Init /\ [][DmNext]_vars


ApprovalNext ==
    \/ \E cid \in VContracts : RequestApproval(cid)
    \/ \E cid \in VContracts, username \in Voters : ApproveContract(cid, username)

SpecApproval == Init /\ [][ApprovalNext]_vars


InitiativesNext ==
    \/ \E action \in IActions, outcome \in {"ok", "send_failed", "sent_then_raised", "unknown"} :
          RunCycle(action, outcome)
    \/ ITick

SpecInitiatives == Init /\ [][InitiativesNext]_vars

SpecListener == Init /\ [][ListenerNext]_vars

\* Every callback invocation keeps running: _process_posted returns or
\* raises, and the finally block of _handle_posted follows it.
HandlerStep(h) == ProcessPosted(h) \/ Finish(h)

\* The handlers alone, at one reading of the clock: only
\* _persist_seen_post reads the clock, and what is done to inflight and to
\* seen does not depend on it.
MaxFairEvents == MaxEvents - 1

HandlersNext ==
    \/ \E h \in Handlers, p \in Posts : events < MaxFairEvents /\ Deliver(h, p)
    \/ \E h \in Handlers : ProcessPosted(h)
    \/ \E h \in Handlers : Finish(h)
    \/ \E h \in Handlers : PersistRead(h)
    \/ \E h \in Handlers : PersistWrite(h)

SpecListenerFair ==
    Init /\ [][HandlersNext]_vars /\ \A h \in Handlers : WF_vars(HandlerStep(h))

(***************************************************************************)
(* C1.  For any post id P the Listener invokes the Agent at most once, no  *)
(* matter how often and how concurrently the 'posted' event is delivered.  *)
(* As stated this fails: the seen set is bounded, and a post id dropped by *)
(* the half-discard is admitted again.                                     *)
(***************************************************************************)
C1_AtMostOnceEver == \A p \in Posts : calls[p] <= 1

\* C1 as amended: the Agent is invoked at most once for P for as long as P
\* has not been dropped from the seen set by the max-size half-discard.
C1_AtMostOnceUnlessDiscarded ==
    \A p \in Posts : calls[p] > 1 => p \in discarded

\* A post whose duplicate event was turned away after the Agent had been
\* invoked for it, with nothing yet discarded.
C1_Witness ==
    \E p \in Posts :
        /\ p \in refused
        /\ calls[p] = 1
        /\ p \in seen
        /\ discarded = {}

(***************************************************************************)
(* C2.  Whenever a save_contract call returns success=false,               *)
(* contracts/<id>.md is what it was before the call; a file that was       *)
(* absent stays absent.                                                    *)
(***************************************************************************)
C2_BlockedSaveLeavesFile ==
    sres.status = "blocked" => cfile[sres.id] = sres.before

\* A blocked save of a contract that already has a saved text.
C2_Witness ==
    /\ sres.status = "blocked"
    /\ sres.before # Absent
    /\ cfile[sres.id] = sres.before

(***************************************************************************)
(* C7.  The ts values of the entries of history.jsonl, in file order, are  *)
(* strictly increasing.  As stated this fails on the second save of a      *)
(* contract: it appends "<ts>_prev" and then "<ts>", which share one       *)
(* timestamp, and as strings "<ts>_prev" sorts after "<ts>".               *)
(***************************************************************************)
\* The order of two ts strings: by timestamp, and "<ts>" before "<ts>_prev".
TsLess(a, b) ==
    \/ a.t < b.t
    \/ a.t = b.t /\ a.kind = "current" /\ b.kind = "previous"

C8_OnePreviousBetweenCurrents ==
    \A c \in Contracts :
        \A i, j \in 1..Len(hist[c]) :
            (/\ i < j
             /\ hist[c][i].kind = "current"
             /\ hist[c][j].kind = "current"
             /\ \A m \in (i + 1)..(j - 1) : hist[c][m].kind # "current")
            => /\ j = i + 2
               /\ hist[c][i + 1].kind = "previous"
               /\ hist[c][i + 1].sha = hist[c][i].sha

(***************************************************************************)
(* C9.  Every 'current' entry of history.jsonl refers to a snapshot file   *)
(* contracts/versions/<id>/<ts>.md that exists and holds the saved text.   *)
(***************************************************************************)
C9_CurrentEntryHasSnapshot ==
    \A c \in Contracts :
        \A i \in 1..Len(hist[c]) :
            hist[c][i].kind = "current"
            => [t |-> hist[c][i].t, prev |-> FALSE, content |-> hist[c][i].sha] \in snaps[c]

\* Two saves of different texts, both snapshots in place.
C9_Witness ==
    \E c \in Contracts :
        \E i, j \in 1..Len(hist[c]) :
            /\ i < j
            /\ hist[c][i].kind = "current"
            /\ hist[c][j].kind = "current"
            /\ hist[c][i].sha # hist[c][j].sha
            /\ [t |-> hist[c][i].t, prev |-> FALSE, content |-> hist[c][i].sha] \in snaps[c]
            /\ [t |-> hist[c][j].t, prev |-> FALSE, content |-> hist[c][j].sha] \in snaps[c]


(***************************************************************************)
(* C3.  Across any sequence of reminder passes, a reminder's               *)
(* escalation_step never decreases and never exceeds 5; once it is 5 it    *)
(* stays 5.  Stated of what a pass writes: in the list it saves, every     *)
(* reminder's step is at most 5 and not below the step the file held for   *)
(* it, and a step of 5 is saved as 5.                                      *)
(***************************************************************************)
PassSaves == rpc = "loop" /\ rpc' = "idle" /\ remFile' # remFile

C4_DailyCaps ==
    \A d \in Days :
        /\ psent[d].messages_sent <= PLANNER_MAX_MESSAGES_PER_DAY
        /\ psent[d].threads_started <= PLANNER_MAX_NEW_THREADS_PER_DAY

(***************************************************************************)
(* C5.  Within a UTC day, over all the cycles that run that day, no        *)
(* initiative has more than PLANNER_MAX_ACTIONS_PER_INITIATIVE_PER_DAY     *)
(* actions executed for it.                                                *)
(***************************************************************************)
C5_PerInitiativeCap ==
    \A k \in DOMAIN pexec : pexec[k] <= PLANNER_MAX_ACTIONS_PER_INITIATIVE_PER_DAY

(***************************************************************************)
(* C6.  A cycle and a notify_thread_activity call never overlap: while one *)
(* holds the state it read, the other is not running, and the file changes *)
(* only by the holder's own write.                                         *)
(***************************************************************************)
C6_NoOverlap ==
    /\ [](~(cpc = "act" /\ npc = "held"))
    /\ [][cpc = "act" => (pfile' = pfile \/ cpc' = "idle")]_vars
    /\ [][npc = "held" => (pfile' = pfile \/ npc' = "idle")]_vars

\* A cycle is under way, having looked at an action, on a state that holds
\* what an earlier notify_thread_activity wrote.
C6_Witness ==
    /\ cpc = "act"
    /\ cnum >= 1
    /\ npc = "idle"
    /\ \E i \in DOMAIN pfile.initiatives :
         /\ pfile.initiatives[i].last_external_activity_at # NoTime
         /\ i \in DOMAIN cstate.initiatives
         /\ cstate.initiatives[i].last_external_activity_at
               = pfile.initiatives[i].last_external_activity_at

(***************************************************************************)
(* C10.  get_active_thread(id) returns null whenever the stored entry's    *)
(* updated_at is older than THREAD_TTL_DAYS at the time of the call.       *)
(***************************************************************************)
C10_ExpiredEntryIsNull ==
    (/\ tres.entry # NoEntry
     /\ tres.entry.updated_at.day # NoTime
     /\ tres.at - tres.entry.updated_at.day > THREAD_TTL_DAYS)
    => tres.result = NoRoot

\* A call found an entry older than the TTL.
C10_Witness ==
    /\ tres.entry # NoEntry
    /\ tres.entry.root_post_id \in Roots
    /\ tres.at - tres.entry.updated_at.day > THREAD_TTL_DAYS
    /\ tres.result = NoRoot

(***************************************************************************)
(* C11.  read_roles() returns, for every role, exactly the usernames       *)
(* listed under that role in context/roles.json or in tasks/roles.json,    *)
(* in lower case, each appearing once.                                     *)
(***************************************************************************)
C11_ReadRolesIsUnion ==
    mrResult # NoResult =>
        \A r \in RoleKeys :
            /\ Range(mrResult[r])
                  = {Lower[u] : u \in Range(mrDefaults[r]) \cup Range(mrRuntime[r])}
            /\ Cardinality(Range(mrResult[r])) = Len(mrResult[r])

\* A name is listed under one role in both files in different case, and
\* read_roles has returned that role with the name once.
C11_Witness ==
    /\ mrResult # NoResult
    /\ "Alice" \in Range(mrDefaults["data_lead"])
    /\ "alice" \in Range(mrRuntime["data_lead"])
    /\ "bob" \in Range(mrDefaults["circle_lead"])
    /\ mrResult["data_lead"] = <<"alice">>

(***************************************************************************)
(* C12.  Each pass in which a reminder is due moves it one rung up the     *)
(* ladder and sends the message of the rung it leaves: whenever no pass    *)
(* and no add_reminder is under way, the watched reminder, on file at step *)
(* k, has had the messages of the rungs below k sent for it, in the        *)
(* ladder's order (thread nudge, A/B post, direct message, escalation),    *)
(* and below step 5 nothing else.                                          *)
(***************************************************************************)
C12_OneRungPerPass ==
    (rpc = "idle" /\ apc = "idle") =>
        \A i \in 1..Len(remFile) :
            remFile[i].id = Watched =>
            LET k == EffStep(remFile[i])
                s == rsent
            IN  /\ Len(s) >= k - 1
                /\ SubSeq(s, 1, k - 1) = SubSeq(Ladder, 1, k - 1)
                /\ k < 5 => Len(s) = k - 1

(***************************************************************************)
(* C13.  A pass sends for and modifies only the reminders whose            *)
(* next_reminder is not later than now and pushes each one it processes    *)
(* REMINDER_DEFAULT_INTERVAL_DAYS ahead, so that no pass processes the     *)
(* same reminder again before the interval has elapsed: two messages for   *)
(* the watched reminder are never sent less than the interval apart.       *)
(***************************************************************************)
C13_NotAgainWithinInterval ==
    [][rsent' # rsent =>
          (rsentAt = NoTime \/ rsentAt' >= rsentAt + REMINDER_DEFAULT_INTERVAL_DAYS)]_vars

(***************************************************************************)
(* C14.  A write tool answers success=true only after its Store writes     *)
(* have completed: a result that carries success=true is the result of a   *)
(* call that wrote every file the handler writes outside a try/except of   *)
(* its own, and a call whose write was given up after the retries answers  *)
(* without success=true.                                                   *)
(***************************************************************************)
C14_NoLieWrite ==
    wresult = "success" =>
        /\ OwnFiles(wtool) \subseteq wdone
        /\ OwnFiles(wtool) \subseteq wfiles

\* save_draft has answered success with both of its files written.
C14_Witness ==
    /\ wresult = "success"
    /\ wtool = "save_draft"
    /\ wdone = {"drafts/x.md", "contracts/index.json"}

(***************************************************************************)
(* C15.  When save_contract is blocked, its one response carries the       *)
(* errors of every gate that failed: the validator's when the contract is  *)
(* not valid, the governance policy's when the approval check ran and was  *)
(* not ok, the glossary's when a term is ambiguous and force is off.  No   *)
(* gate is skipped because an earlier one failed.                          *)
(***************************************************************************)
C15_AllErrorsTogether ==
    (gres # NoCall /\ gres.tool = "save_contract" /\ ~gres.saves) =>
        /\ ~ValidateOk(gres.k) => "validation" \in gres.errors
        /\ (~gres.govRaises
            /\ ~ApprovalOk(gres.k, Governance[TierOf("x")], MergeRoles(gres.roles)))
              => "governance" \in gres.errors
        /\ (GlossaryAmbiguous(gres.k) /\ ~gres.force) => "glossary" \in gres.errors

\* A save was blocked by all three gates at once.
C15_Witness ==
    /\ gres # NoCall
    /\ gres.tool = "save_contract"
    /\ ~gres.saves
    /\ gres.errors = {"validation", "governance", "glossary"}

(***************************************************************************)
(* C16.  force = true turns only the glossary's errors into warnings: a    *)
(* forced call collects no glossary error, and a forced call whose         *)
(* contract is not valid, or whose approval check ran and was not ok, does *)
(* not go on to save.                                                      *)
(***************************************************************************)
C16_ForceOnlyGlossary ==
    (gres # NoCall /\ gres.tool = "save_contract" /\ gres.force) =>
        /\ "glossary" \notin gres.errors
        /\ (\/ ~ValidateOk(gres.k)
            \/ (~gres.govRaises
                /\ ~ApprovalOk(gres.k, Governance[TierOf("x")], MergeRoles(gres.roles))))
              => ~gres.saves

\* A forced call for a contract that is ambiguous and not valid was blocked.
C16_Witness ==
    /\ gres # NoCall
    /\ gres.tool = "save_contract"
    /\ gres.force
    /\ GlossaryAmbiguous(gres.k)
    /\ ~ValidateOk(gres.k)
    /\ ~gres.saves

(***************************************************************************)
(* C17.  The approval check is ok exactly when: at threshold 1.0, every    *)
(* required role is held by at least one approver; at any other threshold  *)
(* t, the fraction of the required roles held by at least one approver is  *)
(* at least t.  A role is held by an approver when the role map gives that *)
(* role for the approver.                                                  *)
(***************************************************************************)
HeldRoles(k, policy, merged) ==
    {r \in policy.approval_required :
        \E u \in Content[k].approvers : RoleMap(merged, u) = r}

C18_Cooldown ==
    [][\A key \in CooldownKeys :
          (plast' # plast /\ plast'.byKey[key].n # plast.byKey[key].n) =>
             \/ plast.byKey[key].at = NoTime
             \/ plast'.byKey[key].at
                   >= plast.byKey[key].at + HoursToDays(PLANNER_COOLDOWN_HOURS)]_vars

\* A propose_resolution was executed a second time, once the cooldown of
\* the first was over.
C18_Witness ==
    \E c \in PContracts :
        /\ plast.byKey[<<"propose_resolution", c>>].n = 2
        /\ plast.byKey[<<"propose_resolution", c>>].at >= HoursToDays(PLANNER_COOLDOWN_HOURS)

(***************************************************************************)
(* C19.  After an ask_question or follow_up is executed for an initiative  *)
(* at time T, no follow_up is executed for that initiative before          *)
(* T + PLANNER_WAIT_BEFORE_FOLLOWUP_HOURS.                                 *)
(***************************************************************************)
C19_WaitBeforeFollowUp ==
    [][\A i \in 1..MaxInitiatives, c \in PContracts :
          (/\ plast' # plast
           /\ plast'.asked[i].n # plast.asked[i].n
           /\ plast'.byKey[<<"follow_up", c>>].n # plast.byKey[<<"follow_up", c>>].n) =>
             \/ plast.asked[i].at = NoTime
             \/ plast'.asked[i].at
                   >= plast.asked[i].at + HoursToDays(PLANNER_WAIT_BEFORE_FOLLOWUP_HOURS)]_vars

\* A follow_up was executed for an initiative that had been asked before,
\* once the wait was over.
C19_Witness ==
    \E i \in 1..MaxInitiatives, c \in PContracts :
        /\ plast.asked[i].n >= 2
        /\ plast.byKey[<<"follow_up", c>>].n >= 1
        /\ plast.byKey[<<"follow_up", c>>].at = plast.asked[i].at
        /\ plast.asked[i].at >= HoursToDays(PLANNER_WAIT_BEFORE_FOLLOWUP_HOURS)

(***************************************************************************)
(* C20.  A planner cycle that finds no candidates sends no chat message,   *)
(* makes no call to the model, and appends exactly one cycle_complete      *)
(* record, which says candidates 0 and actions 0.                          *)
(***************************************************************************)
C20_NoCandidatesCycle ==
    [][(/\ pcycles' = pcycles + 1
        /\ cpc' = "idle"
        /\ CycleNoActions(FALSE, NoAnswer)) =>
           /\ postSeq' = postSeq
           /\ psent' = psent
           /\ pllm' = pllm
           /\ plog'.cycle_complete = plog.cycle_complete + 1
           /\ plog'.no_candidates = plog.no_candidates + 1
           /\ plog'.action_executed = plog.action_executed]_vars

\* A cycle without candidates ran beside cycles that called the model and
\* posted: its record is in the log, and every call of the model belongs to
\* another cycle.
C20_Witness ==
    /\ plog.no_candidates >= 1
    /\ postSeq >= 1
    /\ pllm >= 1
    /\ pllm + plog.no_candidates = pcycles

(***************************************************************************)
(* C21.  notify_thread_activity(root, user) removes user from waiting_for  *)
(* of every active or waiting_response initiative whose thread_id is root  *)
(* and leaves such an initiative active; every other initiative, one that  *)
(* tracks a different thread among them, is left as it was.                *)
(***************************************************************************)
C21_NotifyThreadActivity ==
    [][(npc = "held" /\ npc' = "idle") =>
          /\ DOMAIN pfile'.initiatives = DOMAIN pfile.initiatives
          /\ \A i \in DOMAIN pfile.initiatives :
                LET before == pfile.initiatives[i]
                    after  == pfile'.initiatives[i]
                IN  IF /\ before.thread_id = nroot
                       /\ before.status \in {"active", "waiting_response"}
                    THEN /\ nuser \notin after.waiting_for
                         /\ after.status = "active"
                    ELSE after = before]_vars

\* A reply arrived in the thread of an initiative that had asked: it is
\* active again and waits for nobody, beside an initiative that tracks
\* another thread and saw no activity.
C21_Witness ==
    \E i, j \in DOMAIN pfile.initiatives :
        /\ pfile.initiatives[i].status = "active"
        /\ pfile.initiatives[i].thread_id # NoThread
        /\ pfile.initiatives[i].next_action_after # NoTime
        /\ pfile.initiatives[i].last_external_activity_at # NoTime
        /\ pfile.initiatives[i].waiting_for = {}
        /\ pfile.initiatives[j].thread_id \notin {NoThread, pfile.initiatives[i].thread_id}
        /\ pfile.initiatives[j].last_external_activity_at = NoTime

C23_StaleAbandoned ==
    [][((pcycles' = pcycles + 1 /\ cpc' = "idle") \/ (cpc = "act" /\ cpc' = "idle")) =>
          LET t == IF cpc = "act" THEN cnow ELSE pnow
          IN  \A i \in DOMAIN pfile.initiatives :
                 LET before == pfile.initiatives[i]
                     after  == pfile'.initiatives[i]
                     age    == t - before.updated_at
                 IN  /\ (before.status \notin TerminalStatuses
                            /\ age >= PLANNER_STALE_INITIATIVE_DAYS)
                        => after.status = "abandoned"
                     /\ (before.status # "abandoned"
                            /\ age < PLANNER_STALE_INITIATIVE_DAYS)
                        => after.status # "abandoned"]_vars

\* A cycle abandoned an initiative last updated a day before it, and one
\* updated since is not abandoned.
C23_Witness ==
    \E i, j \in DOMAIN pfile.initiatives :
        /\ pfile.initiatives[i].status = "abandoned"
        /\ pfile.initiatives[i].updated_at = pfile.last_plan_at
        /\ pfile.initiatives[j].status \notin TerminalStatuses
        /\ pfile.initiatives[j].updated_at = pfile.last_plan_at

C25_RetryWithBackoff ==
    /\ wattempt <= WRITE_MAX_RETRIES
    /\ wpc = "writing" =>
          /\ wretry.failed = wattempt - 1
          /\ wretry.slept = [k \in 1..(wattempt - 1) |-> WRITE_BACKOFF_BASE * 2^(k - 1)]
    /\ wlast # NoWrite =>
          /\ wlast.attempts <= WRITE_MAX_RETRIES
          /\ wlast.slept = [k \in 1..(wlast.attempts - 1) |-> WRITE_BACKOFF_BASE * 2^(k - 1)]
          /\ wlast.outcome = "raised" =>
                (wlast.failed = WRITE_MAX_RETRIES /\ wlast.attempts = WRITE_MAX_RETRIES)
          /\ wlast.outcome = "returned" => wlast.failed = wlast.attempts - 1

\* A write was given up after WRITE_MAX_RETRIES failed attempts and the
\* waits between them.
C25_Witness ==
    /\ wlast # NoWrite
    /\ wlast.outcome = "raised"
    /\ wlast.failed = WRITE_MAX_RETRIES
    /\ Len(wlast.slept) = WRITE_MAX_RETRIES - 1
    /\ wresult = "error"

\* C25 as the specification words it: a wait of WRITE_BACKOFF_BASE * 2^(k-1)
\* after every failed attempt k, the last one included.
C25_WaitAfterEveryFailure ==
    wlast # NoWrite =>
        wlast.slept = [k \in 1..wlast.failed |-> WRITE_BACKOFF_BASE * 2^(k - 1)]


(***************************************************************************)
(* C26: every Store write path replaces its target by a temp file and a    *)
(* rename, so that neither a concurrent reader nor the process that comes  *)
(* up after a crash finds a target that is only partly written.            *)
(***************************************************************************)
C26_NoPartialTarget == fobs.by # "none" => Whole(fobs.data)


(***************************************************************************)
(* C27: when the handling of a post ends, by a return or by an exception   *)
(* of the processing, its id is out of inflight, and it is in seen unless  *)
(* the half-discard of the same finally block dropped it; an id in         *)
(* inflight leaves it.                                                     *)
(***************************************************************************)
HandlingEnds(h) == hpc[h] = "finish" /\ hpc'[h] # "finish"

C27_InflightToSeen ==
    /\ [][\A h \in Handlers :
            HandlingEnds(h) =>
               /\ hpost[h] \notin inflight'
               /\ \/ hpost[h] \in seen'
                  \/ Cardinality(seen \cup {hpost[h]}) > DEDUP_MAX_ENTRIES]_vars
    /\ \A p \in Posts : (p \in inflight) ~> (p \notin inflight)

\* One post was handled to the end without the Agent being invoked, and
\* another one with it; both are in seen and nothing is in inflight.
C27_Witness ==
    \E p, q \in Posts :
        /\ {p, q} \subseteq seen
        /\ calls[p] = 0
        /\ calls[q] = 1
        /\ inflight = {}

\* The statement as written: the id is in seen whenever the handling ends.
C27_AlwaysInSeen ==
    [][\A h \in Handlers :
          HandlingEnds(h) => (hpost[h] \notin inflight' /\ hpost[h] \in seen')]_vars


(***************************************************************************)
(* C28: seen and the persisted list of tasks/seen_posts.json never hold    *)
(* more than DEDUP_MAX_ENTRIES entries.  An id that would take seen over   *)
(* the bound leaves seen with half the bound; a persist that finds the     *)
(* bound reached among the unexpired entries keeps the last half of them   *)
(* before it appends; and a persist leaves no entry in the file that is    *)
(* DEDUP_TTL_SECONDS old or older.                                         *)
(***************************************************************************)
Persists(h) == hpc[h] = "persist_write" /\ hpc'[h] = "idle" /\ seenFile' # seenFile

C28_SeenBounded ==
    /\ [](/\ Cardinality(seen) <= DEDUP_MAX_ENTRIES
          /\ Len(seenFile) <= DEDUP_MAX_ENTRIES)
    /\ [][\A h \in Handlers :
            /\ HandlingEnds(h) /\ Cardinality(seen \cup {hpost[h]}) > DEDUP_MAX_ENTRIES
                 => Cardinality(seen') = DEDUP_MAX_ENTRIES \div 2
            /\ Persists(h) =>
                 /\ \A i \in 1..Len(seenFile') :
                       now - seenFile'[i].ts < DEDUP_TTL_SECONDS
                 /\ Len(seenFile') <= Len(hread[h]) + 1
                 /\ Len(hread[h]) >= DEDUP_MAX_ENTRIES
                       => Len(seenFile') <= DEDUP_MAX_ENTRIES \div 2 + 1]_vars

\* seen was cut to half the bound, and the file is full after the clock
\* has reached the age at which the first entries expire.
C28_Witness ==
    /\ discarded # {}
    /\ Cardinality(seen) = DEDUP_MAX_ENTRIES \div 2
    /\ Len(seenFile) = DEDUP_MAX_ENTRIES
    /\ now = DEDUP_TTL_SECONDS


C30_DmChangesNothing ==
    [][(dn' # dn /\ dmsg'.channel = "dm") =>
          /\ dstatus' = dstatus
          /\ dsaved' = dsaved
          /\ dreminders' = dreminders
          /\ dmsg'.catalog \cap WRITE_TOOLS = {}]_vars


(***************************************************************************)
(* C31: approve_contract called for a contract by a user whose vote is     *)
(* already recorded returns success and already_approved and leaves the    *)
(* recorded approvals as they were; no user is recorded twice.             *)
(***************************************************************************)
C31_DuplicateVote ==
    /\ [](\A c \in VContracts : \A i, j \in 1..Len(vstate[c].approvals) :
             vstate[c].approvals[i].username = vstate[c].approvals[j].username => i = j)
    /\ [][(vn' # vn /\ vres'.tool = "approve_contract") =>
            LET c == vres'.contract_id
                u == Normalized(vres'.username)
            IN  (\E i \in 1..Len(vstate[c].approvals) : vstate[c].approvals[i].username = u)
                   => /\ vres'.success
                      /\ vres'.already_approved
                      /\ vstate' = vstate]_vars

\* The second vote of one user has just been answered.
C31_Witness ==
    /\ vres.tool = "approve_contract"
    /\ vres.already_approved
    /\ vres.success
    /\ \E i \in 1..Len(vstate[vres.contract_id].approvals) :
          vstate[vres.contract_id].approvals[i].username = Normalized(vres.username)


(***************************************************************************)
(* C32: the planner state, on file and in the hands of a running cycle,    *)
(* holds at most one initiative per contract that is neither completed nor *)
(* abandoned: an action for a contract that has such an initiative is      *)
(* booked on it and adds none.                                             *)
(***************************************************************************)
NonTerminal(state, cid) ==
    {i \in DOMAIN state.initiatives :
        /\ state.initiatives[i].contract_id = cid
        /\ state.initiatives[i].status \notin {"completed", "abandoned"}}

C32_OneOpenInitiative ==
    \A cid \in PContracts :
        /\ Cardinality(NonTerminal(pfile, cid)) <= 1
        /\ cpc = "act" => Cardinality(NonTerminal(cstate, cid)) <= 1

\* A second initiative of a contract was created after the first one was
\* abandoned, and an action was then booked on the second.
C32_Witness ==
    /\ Len(pfile.initiatives) = 2
    /\ pfile.initiatives[1].contract_id = pfile.initiatives[2].contract_id
    /\ pfile.initiatives[1].status = "abandoned"
    /\ pfile.initiatives[2].status \notin {"completed", "abandoned"}
    /\ pfile.initiatives[2].actions_today >= 1


(***************************************************************************)
(* C33: a reminder that add_reminder put on file while a reminder pass was *)
(* running is still on file after the pass has saved: the save of a pass   *)
(* drops no reminder that the file holds at that moment.                   *)
(***************************************************************************)
IdsOf(list) == {list[i].id : i \in 1..Len(list)}

C33_PassKeepsAdditions ==
    [][PassSaves => IdsOf(remFile) \subseteq IdsOf(remFile')]_vars

(***************************************************************************)
(* C35: when a pass ends on an exception raised at a later reminder, the   *)
(* reminders it had already processed are on file with their advanced      *)
(* step and next_reminder.                                                 *)
(***************************************************************************)
PassRaises == rpc = "loop" /\ ridx <= Len(rlocal) /\ rpc' = "idle"

C35_ProcessedStaysProcessed ==
    [][PassRaises =>
        \A i \in 1..Len(rlocal) :
            rlocal[i].last = rpassNow =>
                \E j \in 1..Len(remFile') :
                    /\ remFile'[j].id = rlocal[i].id
                    /\ remFile'[j].step = rlocal[i].step
                    /\ remFile'[j].next = rlocal[i].next]_vars

(***************************************************************************)
(* C36: a pass sends no message for a reminder that it finds at step 5.    *)
(***************************************************************************)
C36_SilentAtFive ==
    [][(rpc = "loop" /\ rsent' # rsent) => EffStep(rlocal[ridx]) < 5]_vars


(***************************************************************************)
(* C34: every processed post is on record in tasks/seen_posts.json while   *)
(* its entry is fresh, also when several handlers finish at once: a        *)
(* handler that persists its post, and whose cap does not apply, leaves    *)
(* every fresh entry of the file in the file.                              *)
(***************************************************************************)
FreshIds(data, t) ==
    {e.id : e \in {x \in Range(data) : t - x.ts < DEDUP_TTL_SECONDS}}

C34_PersistKeepsEntries ==
    [][\A h \in Handlers :
          (Persists(h) /\ Len(hread[h]) < DEDUP_MAX_ENTRIES) =>
              FreshIds(seenFile, now) \subseteq FreshIds(seenFile', now)]_vars


(***************************************************************************)
(* C37: a save_contract that fails partway (a rename or a history append   *)
(* raises) leaves the contract file with its previous content, adds no     *)
(* snapshot and appends nothing to the history: the three change together  *)
(* or not at all.                                                          *)
(***************************************************************************)
SaveFails == sclock' # sclock /\ sres'.status = "error"

C37_AllOrNothing ==
    [][SaveFails => (cfile' = cfile /\ snaps' = snaps /\ hist' = hist)]_vars


(***************************************************************************)
(* C40: a save_contract call whose governance check raises does not go on  *)
(* to save the contract.                                                   *)
(***************************************************************************)
C40_GateFailsClosed ==
    (gres # NoCall /\ gres.tool = "save_contract" /\ gres.govRaises) => ~gres.saves


(***************************************************************************)
(* C39: an action whose dispatch gives no result leaves the planner state  *)
(* as it was: a turn of the action loop that books no execution changes    *)
(* neither the state the cycle holds (initiatives, cooldowns, statuses)    *)
(* nor today's counters.                                                   *)
(***************************************************************************)
TurnWithoutResult ==
    /\ cpc = "act"
    /\ cnum' = cnum + 1
    /\ plog'.action_executed = plog.action_executed

C39_FailedDispatchNoChange ==
    [][TurnWithoutResult => (cstate' = cstate /\ cdaily' = cdaily)]_vars


(***************************************************************************)
(* C38: the planner state never holds more than                            *)
(* PLANNER_MAX_ACTIVE_INITIATIVES initiatives in status active,            *)
(* waiting_response or planned.                                            *)
(***************************************************************************)
ActiveCount(state) ==
    Cardinality({i \in DOMAIN state.initiatives :
                    state.initiatives[i].status \in {"active", "waiting_response", "planned"}})

C38_ActiveCap == ActiveCount(ifile) <= PLANNER_MAX_ACTIVE_INITIATIVES

=============================================================================
